---- MODULE Spec2Model ----
(***************************************************************************)
(* Model of the transaction builder of radix-engine                        *)
(* (src/radix-engine/src/transaction/builder.rs): the resource amount      *)
(* grammar, argument preparation against an ABI, the two instruction       *)
(* streams (reservations and instructions) and build.                      *)
(*                                                                         *)
(* Text is a sequence of characters, so that trimming, splitting and       *)
(* parsing are computed and not assumed.  An ASCII character is a          *)
(* one-character string; a character outside ASCII is the string of its    *)
(* code point, such as "U+00A0".                                           *)
(***************************************************************************)
EXTENDS Integers, Sequences, FiniteSets, TLC

VARIABLES builder, result, last, raw, nops, twin

vars == <<builder, result, last, raw, nops, twin>>

(***************************************************************************)
(* Bounds of the model.                                                    *)
(***************************************************************************)
\* Number of mutating builder calls made on one builder.
MaxOps == 3

(***************************************************************************)
(* Text helpers.                                                           *)
(***************************************************************************)
DigitChars == <<"0", "1", "2", "3", "4", "5", "6", "7", "8", "9">>

HexChars == DigitChars \o <<"a", "b", "c", "d", "e", "f">>

IsDigit(c) == c \in {DigitChars[i] : i \in 1..Len(DigitChars)}

IsHex(c) == c \in {HexChars[i] : i \in 1..Len(HexChars)}

HexVal(c) == (CHOOSE i \in 1..Len(HexChars) : HexChars[i] = c) - 1

Last(s) == s[Len(s)]

Front(s) == SubSeq(s, 1, Len(s) - 1)

RECURSIVE DigitsVal(_)
\* Value of a non-empty run of decimal digits.
DigitsVal(s) ==
    IF s = <<>> THEN 0 ELSE 10 * DigitsVal(Front(s)) + HexVal(Last(s))

AllDigits(s) == \A i \in 1..Len(s) : IsDigit(s[i])

\* char::is_whitespace (the Unicode property White_Space).  An ASCII
\* character is its one-character string; U+000B (vertical tab) has no
\* escape and stands as the character itself, between "\n" and "\f".  A
\* character outside ASCII is written by its code point, so that a text reads
\* the same whatever the encoding the module is read in.
WhitespaceChars ==
    { "\t", "\n", "", "\f", "\r", " ",
      "U+0085", "U+00A0", "U+1680",
      "U+2000", "U+2001", "U+2002", "U+2003", "U+2004", "U+2005", "U+2006",
      "U+2007", "U+2008", "U+2009", "U+200A",
      "U+2028", "U+2029", "U+202F", "U+205F", "U+3000" }

RECURSIVE trim(_)
\* str::trim: whitespace removed at both ends.
trim(s) ==
    IF s # <<>> /\ Head(s) \in WhitespaceChars THEN trim(Tail(s))
    ELSE IF s # <<>> /\ Last(s) \in WhitespaceChars THEN trim(Front(s))
    ELSE s

RECURSIVE split(_, _)
\* str::split(sep): the pieces between separators; always at least one piece.
split(s, sep) ==
    IF \A i \in 1..Len(s) : s[i] # sep THEN <<s>>
    ELSE LET p == CHOOSE i \in 1..Len(s) :
                      s[i] = sep /\ \A j \in 1..(i - 1) : s[j] # sep
         IN  <<SubSeq(s, 1, p - 1)>> \o split(SubSeq(s, p + 1, Len(s)), sep)

starts_with(s, c) == s # <<>> /\ Head(s) = c

Ok(v) == [ok |-> TRUE, v |-> v]

Err(e) == [ok |-> FALSE, err |-> e]

(***************************************************************************)
(* Textual grammars of the value types the builder parses.  Their code is  *)
(* outside the files at hand; they are modelled from their contract: an    *)
(* address is fixed-length hex text with a leading kind digit, a decimal   *)
(* is an optional sign, digits and an optional fraction.                   *)
(***************************************************************************)
\* Hex characters of an address text (the kind digit, then one more).
AddressTextLen == 2

\* Address kinds: package, component, resource definition, public key.
AddressKinds == {1, 2, 3, 4}

\* str::parse::<Address>
Address_from_str(s) ==
    IF /\ Len(s) = AddressTextLen
       /\ \A i \in 1..Len(s) : IsHex(s[i])
       /\ HexVal(s[1]) \in AddressKinds
    THEN Ok(16 * HexVal(s[1]) + HexVal(s[2]))
    ELSE Err("ParseAddressError")

\* Largest number of fraction digits a Decimal holds.
DecimalPlaces == 18

RECURSIVE StripZeros(_)
StripZeros(f) == IF f # <<>> /\ Last(f) = "0" THEN StripZeros(Front(f)) ELSE f

\* A Decimal: sign, integral value and fraction digits without trailing zeros.
Decimal(sign, int, f) ==
    [sign |-> IF int = 0 /\ f = <<>> THEN 1 ELSE sign, int |-> int, frac |-> f]

\* Decimal::from(n) for a non-negative integer n.
Decimal_from(n) == Decimal(1, n, <<>>)

\* The text of a Decimal after its sign, split at '.'.
Decimal_from_parts(neg, parts) ==
    IF /\ Len(parts) \in {1, 2}
       /\ parts[1] # <<>>
       /\ AllDigits(parts[1])
       /\ Len(parts) = 2 =>
              /\ parts[2] # <<>>
              /\ AllDigits(parts[2])
              /\ Len(parts[2]) <= DecimalPlaces
    THEN Ok(Decimal(IF neg THEN -1 ELSE 1, DigitsVal(parts[1]),
                    IF Len(parts) = 2 THEN StripZeros(parts[2]) ELSE <<>>))
    ELSE Err("ParseDecimalError")

\* str::parse::<Decimal>
Decimal_from_str(s) ==
    Decimal_from_parts(starts_with(s, "-"),
                       split(IF starts_with(s, "-") THEN Tail(s) ELSE s, "."))

\* Bit widths of the integer kinds of the ABI.
IntWidth(kind) ==
    CASE kind \in {"I8", "U8"} -> 8
      [] kind \in {"I16", "U16"} -> 16
      [] kind \in {"I32", "U32"} -> 32
      [] kind \in {"I64", "U64"} -> 64
      [] kind \in {"I128", "U128"} -> 128

IsSigned(kind) == kind \in {"I8", "I16", "I32", "I64", "I128"}

\* Range check of an integer kind.  Inputs of the model are a few digits
\* long, so only the 8 and 16 bit kinds can be exceeded.
IntFits(kind, v) ==
    LET w == IntWidth(kind)
    IN  IF w > 16 THEN IsSigned(kind) \/ v >= 0
        ELSE IF IsSigned(kind) THEN -(2 ^ (w - 1)) <= v /\ v < 2 ^ (w - 1)
        ELSE 0 <= v /\ v < 2 ^ w

\* The digits of an integer text after its sign.
Int_from_digits(kind, neg, body) ==
    IF /\ body # <<>>
       /\ AllDigits(body)
       /\ neg => IsSigned(kind)
       /\ IntFits(kind, IF neg THEN -DigitsVal(body) ELSE DigitsVal(body))
    THEN Ok(IF neg THEN -DigitsVal(body) ELSE DigitsVal(body))
    ELSE Err("ParseIntError")

\* str::parse::<iN / uN>: optional sign, then digits, within range.
Int_from_str(kind, s) ==
    Int_from_digits(kind, starts_with(s, "-"),
                    IF starts_with(s, "-") \/ starts_with(s, "+") THEN Tail(s) ELSE s)

\* str::parse::<bool>
Bool_from_str(s) ==
    IF s = <<"t", "r", "u", "e">> THEN Ok(TRUE)
    ELSE IF s = <<"f", "a", "l", "s", "e">> THEN Ok(FALSE)
    ELSE Err("ParseBoolError")

RECURSIVE Digits(_)
\* The decimal digits of a natural number (Display of u128).
Digits(n) ==
    IF n < 10 THEN <<DigitChars[n + 1]>>
    ELSE Digits(n \div 10) \o <<DigitChars[(n % 10) + 1]>>

\* Display of Decimal: sign, integral digits, and the fraction if there is one.
Decimal_to_str(d) ==
    (IF d.sign = -1 THEN <<"-">> ELSE <<>>)
        \o Digits(d.int)
        \o (IF d.frac = <<>> THEN <<>> ELSE <<".">> \o d.frac)

\* Display of Address: its hex text.
Address_to_str(a) == <<HexChars[(a \div 16) + 1], HexChars[(a % 16) + 1]>>

(***************************************************************************)
(* ResourceAmount and its grammar.                                         *)
(***************************************************************************)
Fungible(amt, addr) ==
    [variant |-> "Fungible", amount |-> amt, resource_address |-> addr]

NonFungible(ids, addr) ==
    [variant |-> "NonFungible", ids |-> ids, resource_address |-> addr]

RECURSIVE parse_ids(_, _)
\* insert_id with a slip: only the last id is kept.
insert_id_replace(n, tokens, ids) ==
    IF n.ok THEN parse_ids(Tail(tokens), {n.v}) ELSE Err("InvalidNftId")

\* The rest of the loop over tokens[..len-1], the first token having parsed
\* as n.
insert_id(n, tokens, ids) ==
    IF n.ok THEN parse_ids(Tail(tokens), ids \cup {n.v}) ELSE Err("InvalidNftId")

\* The loop over tokens[..len-1]: each must be '#' followed by a u128.
parse_ids(tokens, ids) ==
    IF tokens = <<>> THEN Ok(ids)
    ELSE IF starts_with(Head(tokens), "#")
    THEN insert_id(Int_from_str("U128", Tail(Head(tokens))), tokens, ids)
    ELSE Err("InvalidNftId")

NonFungible_from(ids, addr) ==
    IF ids.ok THEN Ok(NonFungible(ids.v, addr)) ELSE ids

Fungible_from(amt, addr) ==
    IF amt.ok THEN Ok(Fungible(amt.v, addr)) ELSE Err("InvalidAmount")

\* ResourceAmount_from_tokens with a slip: the ids and the amount are looked
\* at before the address.
ResourceAmount_from_tokens_address_last(tokens, addr) ==
    IF starts_with(tokens[1], "#") /\ ~parse_ids(Front(tokens), {}).ok
    THEN Err("InvalidNftId")
    ELSE IF ~starts_with(tokens[1], "#")
            /\ (Len(tokens) # 2 \/ ~Decimal_from_str(tokens[1]).ok)
    THEN Err("InvalidAmount")
    ELSE IF ~addr.ok THEN Err("InvalidResourceAddress")
    ELSE IF starts_with(tokens[1], "#")
    THEN NonFungible_from(parse_ids(Front(tokens), {}), addr.v)
    ELSE Fungible_from(Decimal_from_str(tokens[1]), addr.v)

\* from_str once the text is split into at least two tokens and the last
\* one is parsed.
ResourceAmount_from_tokens(tokens, addr) ==
    IF ~addr.ok THEN Err("InvalidResourceAddress")
    ELSE IF starts_with(tokens[1], "#")
    THEN NonFungible_from(parse_ids(Front(tokens), {}), addr.v)
    ELSE IF Len(tokens) = 2
    THEN Fungible_from(Decimal_from_str(tokens[1]), addr.v)
    ELSE Err("InvalidAmount")

ResourceAmount_split(tokens) ==
    IF Len(tokens) >= 2
    THEN ResourceAmount_from_tokens(tokens, Address_from_str(Last(tokens)))
    ELSE Err("MissingResourceAddress")

\* impl FromStr for ResourceAmount
ResourceAmount_from_str(s) == ResourceAmount_split(split(trim(s), ","))

\* amount with a slip: for non-fungible ids the smallest id is taken for
\* their number.
amount_smallest_id(self) ==
    IF self.variant = "Fungible" THEN self.amount
    ELSE Decimal_from(CHOOSE n \in self.ids : \A m \in self.ids : n <= m)

\* ResourceAmount::amount
amount(self) ==
    IF self.variant = "Fungible" THEN self.amount
    ELSE Decimal_from(Cardinality(self.ids))

\* ResourceAmount::resource_address
resource_address(self) == self.resource_address

(***************************************************************************)
(* Types of an ABI, encoded values, instructions and errors.               *)
(***************************************************************************)
\* sbor::describe::Type: a kind, and for Type::Custom the custom name.
Type(kind) == [kind |-> kind, name |-> ""]

Custom(name) == [kind |-> "Custom", name |-> name]

SCRYPTO_NAME_DECIMAL == "scrypto::types::Decimal"

SCRYPTO_NAME_BIG_DECIMAL == "scrypto::types::BigDecimal"

SCRYPTO_NAME_ADDRESS == "scrypto::types::Address"

SCRYPTO_NAME_H256 == "scrypto::types::H256"

SCRYPTO_NAME_BID == "scrypto::types::Bid"

SCRYPTO_NAME_BUCKET == "scrypto::resource::Bucket"

SCRYPTO_NAME_RID == "scrypto::types::Rid"

SCRYPTO_NAME_BUCKET_REF == "scrypto::resource::BucketRef"

\* SmartValue::from(value): the tag of the value's type, then the value.
SmartValue_from(tag, v) == <<tag, v>>

\* Hex characters of an H256 text in the model.
H256TextLen == 4

\* str::parse::<H256>
H256_from_str(s) ==
    IF Len(s) = H256TextLen /\ \A i \in 1..Len(s) : IsHex(s[i])
    THEN Ok(s)
    ELSE Err("ParseH256Error")

\* str::parse::<BigDecimal>: the grammar of Decimal.
BigDecimal_from_str(s) == Decimal_from_str(s)

DeclareTempBucket == [op |-> "DeclareTempBucket"]

DeclareTempBucketRef == [op |-> "DeclareTempBucketRef"]

TakeFromContext(amt, addr, to) ==
    [op |-> "TakeFromContext", amount |-> amt, resource_address |-> addr,
     to |-> to]

BorrowFromContext(amt, addr, to) ==
    [op |-> "BorrowFromContext", amount |-> amt, resource_address |-> addr,
     to |-> to]

CallFunction(package_address, blueprint_name, function, args) ==
    [op |-> "CallFunction", package_address |-> package_address,
     blueprint_name |-> blueprint_name, function |-> function, args |-> args]

CallMethod(component_address, method, args) ==
    [op |-> "CallMethod", component_address |-> component_address,
     method |-> method, args |-> args]

DropAllBucketRefs == [op |-> "DropAllBucketRefs"]

DepositAllBuckets(account) == [op |-> "DepositAllBuckets", account |-> account]

End(signers) == [op |-> "End", signers |-> signers]

IsDeclaration(inst) == inst.op \in {"DeclareTempBucket", "DeclareTempBucketRef"}

\* BuildArgsError
MissingArgument(i, ty) == [e |-> "MissingArgument", i |-> i, ty |-> ty]

FailedToParse(i, ty, arg) ==
    [e |-> "FailedToParse", i |-> i, ty |-> ty, arg |-> arg]

UnsupportedType(i, ty) == [e |-> "UnsupportedType", i |-> i, ty |-> ty]

\* BuildTransactionError
FailedToExportFunctionAbi(package_address, blueprint_name, function) ==
    [e |-> "FailedToExportFunctionAbi", package_address |-> package_address,
     blueprint_name |-> blueprint_name, function |-> function]

FailedToExportMethodAbi(component_address, method) ==
    [e |-> "FailedToExportMethodAbi", component_address |-> component_address,
     method |-> method]

FunctionNotFound(function) == [e |-> "FunctionNotFound", function |-> function]

MethodNotFound(method) == [e |-> "MethodNotFound", method |-> method]

FailedToBuildArgs(cause) == [e |-> "FailedToBuildArgs", cause |-> cause]

\* Option<Address>::None
None == -1

\* The addresses of the built-in packages.
SYSTEM_PACKAGE == Address_from_str(<<"1", "1">>).v

ACCOUNT_PACKAGE == Address_from_str(<<"1", "2">>).v

(***************************************************************************)
(* IdAllocator: two independent zero-based counters.                       *)
(***************************************************************************)
IdAllocator_new == [bucket_counter |-> 0, bucket_ref_counter |-> 0]

\* new_bid: the current bucket counter, then incremented.
new_bid(allocator) ==
    [allocator |-> [allocator EXCEPT !.bucket_counter = @ + 1],
     id |-> allocator.bucket_counter]

\* new_rid: the current bucket-reference counter, then incremented.
new_rid(allocator) ==
    [allocator |-> [allocator EXCEPT !.bucket_ref_counter = @ + 1],
     id |-> allocator.bucket_ref_counter]

(***************************************************************************)
(* The ABI provider: a ledger with one package (blueprint "Shop") and one  *)
(* component of that blueprint, and blueprint "Probe" with its component.  *)
(* Anything else cannot be exported.                                       *)
(***************************************************************************)
PACKAGE == Address_from_str(<<"1", "0">>).v

COMPONENT == Address_from_str(<<"2", "0">>).v

ACCOUNT == Address_from_str(<<"2", "1">>).v

TOKEN == Address_from_str(<<"3", "0">>).v

BADGE == Address_from_str(<<"3", "1">>).v

KEY == Address_from_str(<<"4", "0">>).v

ShopAbi ==
    [functions |->
        << [name |-> "new", inputs |-> <<>>],
           [name |-> "buy",
            inputs |-> <<Custom(SCRYPTO_NAME_DECIMAL), Custom(SCRYPTO_NAME_BUCKET)>>],
           [name |-> "swap",
            inputs |-> <<Custom(SCRYPTO_NAME_BUCKET), Custom(SCRYPTO_NAME_DECIMAL)>>],
           [name |-> "auth",
            inputs |-> <<Custom(SCRYPTO_NAME_BUCKET_REF), Custom(SCRYPTO_NAME_BUCKET)>>],
           [name |-> "tag", inputs |-> <<Type("U8"), Type("Unit")>>],
           [name |-> "pair",
            inputs |-> <<Custom(SCRYPTO_NAME_BUCKET), Custom(SCRYPTO_NAME_BUCKET_REF),
                         Custom(SCRYPTO_NAME_BUCKET)>>],
           [name |-> "trade",
            inputs |-> <<Custom(SCRYPTO_NAME_BUCKET_REF), Type("U8"),
                         Custom(SCRYPTO_NAME_BID), Custom(SCRYPTO_NAME_RID),
                         Type("String")>>] >>,
     methods |->
        << [name |-> "free_token", inputs |-> <<>>],
           [name |-> "deposit",
            inputs |-> <<Custom(SCRYPTO_NAME_BUCKET_REF), Custom(SCRYPTO_NAME_BUCKET)>>],
           [name |-> "set_rate", inputs |-> <<Custom(SCRYPTO_NAME_DECIMAL)>>] >>]

\* A custom type name the builder has no arm for.
SCRYPTO_NAME_VAULT == "scrypto::resource::Vault"

\* The declared types of blueprint "Probe": the kinds the builder has an arm
\* for, and three it has none for.
ProbeTypes ==
    << Type("Bool"), Type("I8"), Type("I16"), Type("I32"), Type("I64"),
       Type("I128"), Type("U8"), Type("U16"), Type("U32"), Type("U64"),
       Type("U128"), Type("String"),
       Custom(SCRYPTO_NAME_DECIMAL), Custom(SCRYPTO_NAME_BIG_DECIMAL),
       Custom(SCRYPTO_NAME_ADDRESS), Custom(SCRYPTO_NAME_H256),
       Custom(SCRYPTO_NAME_BID), Custom(SCRYPTO_NAME_BUCKET),
       Custom(SCRYPTO_NAME_RID), Custom(SCRYPTO_NAME_BUCKET_REF),
       Type("Unit"), Type("Option"), Custom(SCRYPTO_NAME_VAULT) >>

\* The name a type goes by in blueprint "Probe".
TypeName(t) == IF t.kind = "Custom" THEN t.name ELSE t.kind

\* Blueprint "Probe": for each type a function that takes one value of it,
\* and a method, of the same name, that takes a bucket and then one value.
ProbeAbi ==
    [functions |->
        [k \in 1..Len(ProbeTypes) |->
            [name |-> TypeName(ProbeTypes[k]), inputs |-> <<ProbeTypes[k]>>]],
     methods |->
        [k \in 1..Len(ProbeTypes) |->
            [name |-> TypeName(ProbeTypes[k]),
             inputs |-> <<Custom(SCRYPTO_NAME_BUCKET), ProbeTypes[k]>>]]]

\* The component of blueprint "Probe".
PROBE == Address_from_str(<<"2", "2">>).v

\* AbiProvider::export_abi
export_abi(package_address, blueprint_name) ==
    IF package_address = PACKAGE /\ blueprint_name = "Shop"
    THEN Ok(ShopAbi)
    ELSE IF package_address = PACKAGE /\ blueprint_name = "Probe"
    THEN Ok(ProbeAbi)
    ELSE Err("RuntimeError")

\* AbiProvider::export_abi_component
export_abi_component(component_address) ==
    IF component_address = COMPONENT THEN Ok(ShopAbi)
    ELSE IF component_address = PROBE THEN Ok(ProbeAbi)
    ELSE Err("RuntimeError")

(***************************************************************************)
(* TransactionBuilder.  The builder is a record; every method is an        *)
(* operator from the builder (and its arguments) to the builder after the  *)
(* call.  `handed` logs each id passed to a `then` continuation, with its  *)
(* kind, the place in reservations of the declaration pushed for it and    *)
(* the length of the body at that moment; `queried` counts the calls made  *)
(* to the ABI provider.                                                    *)
(***************************************************************************)
\* TransactionBuilder::new
new ==
    [allocator |-> IdAllocator_new, reservations |-> <<>>,
     instructions |-> <<>>, errors |-> <<>>, handed |-> <<>>, queried |-> 0]

add_instruction(self, inst) ==
    [self EXCEPT !.instructions = Append(@, inst)]

\* take_from_context with a slip: the fill is pushed onto the reservations.
take_from_context_reserved(self, amt, addr, to) ==
    [self EXCEPT !.reservations = Append(@, TakeFromContext(amt, addr, to))]

take_from_context(self, amt, addr, to) ==
    add_instruction(self, TakeFromContext(amt, addr, to))

borrow_from_context(self, amt, addr, rid) ==
    add_instruction(self, BorrowFromContext(amt, addr, rid))

\* The continuations given to declare_bucket, as data: the closure of
\* prepare_custom_ty, the closure of new_account_with_resource, and a caller's
\* closure that does nothing.
then_bid(self, then, bid) ==
    CASE then.k = "take_from_context" ->
             take_from_context(self, then.amount, then.resource_address, bid)
      [] then.k = "with_bucket" ->
             add_instruction(
                 take_from_context(self, then.amount, then.resource_address, bid),
                 CallFunction(ACCOUNT_PACKAGE, "Account", "with_bucket",
                              << SmartValue_from("Address", then.key),
                                 SmartValue_from("Bid", bid) >>))
      [] then.k = "identity" -> self

\* The continuations given to declare_bucket_ref, as data: the closure of
\* prepare_custom_ty, the closure of mint, and a caller's closure that does
\* nothing.
then_rid(self, then, rid) ==
    CASE then.k = "borrow_from_context" ->
             borrow_from_context(self, then.amount, then.resource_address, rid)
      [] then.k = "mint" ->
             add_instruction(
                 borrow_from_context(self, Decimal_from(1),
                                     then.mint_badge_address, rid),
                 CallFunction(SYSTEM_PACKAGE, "System", "mint",
                              << SmartValue_from("Decimal", then.amount),
                                 SmartValue_from("Address", then.resource_address),
                                 SmartValue_from("Rid", rid) >>))
      [] then.k = "identity" -> self

\* declare_bucket with a slip: the declaration is emitted like any other
\* instruction, into the body.
declare_bucket_in_body(self, then) ==
    then_bid([self EXCEPT
                 !.allocator = new_bid(self.allocator).allocator,
                 !.instructions = Append(@, DeclareTempBucket),
                 !.handed = Append(@, [kind |-> "Bid",
                                       id |-> new_bid(self.allocator).id,
                                       at |-> Len(self.reservations) + 1,
                                       body |-> Len(self.instructions)])],
             then, new_bid(self.allocator).id)

\* declare_bucket with a slip: the id is allocated and no declaration is
\* pushed.
declare_bucket_undeclared(self, then) ==
    then_bid([self EXCEPT
                 !.allocator = new_bid(self.allocator).allocator,
                 !.handed = Append(@, [kind |-> "Bid",
                                       id |-> new_bid(self.allocator).id,
                                       at |-> Len(self.reservations) + 1,
                                       body |-> Len(self.instructions)])],
             then, new_bid(self.allocator).id)

\* declare_bucket with a slip: the id is drawn from a counter that the calls
\* on every builder advance, not from the builder's own allocator.
declare_bucket_shared_counter(self, then) ==
    then_bid([self EXCEPT
                 !.allocator = new_bid(self.allocator).allocator,
                 !.reservations = Append(@, DeclareTempBucket),
                 !.handed = Append(@, [kind |-> "Bid", id |-> nops,
                                       at |-> Len(self.reservations) + 1,
                                       body |-> Len(self.instructions)])],
             then, nops)

declare_bucket(self, then) ==
    LET bid == new_bid(self.allocator)
    IN  then_bid([self EXCEPT
                     !.allocator = bid.allocator,
                     !.reservations = Append(@, DeclareTempBucket),
                     !.handed = Append(@, [kind |-> "Bid", id |-> bid.id,
                                           at |-> Len(self.reservations) + 1,
                                           body |-> Len(self.instructions)])],
                 then, bid.id)

\* declare_bucket_ref with a slip: the id is drawn from the bucket counter.
declare_bucket_ref_shared(self, then) ==
    then_rid([self EXCEPT
                 !.allocator = new_bid(self.allocator).allocator,
                 !.reservations = Append(@, DeclareTempBucketRef),
                 !.handed = Append(@, [kind |-> "Rid",
                                       id |-> new_bid(self.allocator).id,
                                       at |-> Len(self.reservations) + 1,
                                       body |-> Len(self.instructions)])],
             then, new_bid(self.allocator).id)

declare_bucket_ref(self, then) ==
    LET rid == new_rid(self.allocator)
    IN  then_rid([self EXCEPT
                     !.allocator = rid.allocator,
                     !.reservations = Append(@, DeclareTempBucketRef),
                     !.handed = Append(@, [kind |-> "Rid", id |-> rid.id,
                                           at |-> Len(self.reservations) + 1,
                                           body |-> Len(self.instructions)])],
                 then, rid.id)

drop_all_bucket_refs(self) == add_instruction(self, DropAllBucketRefs)

deposit_all_buckets(self, account) ==
    add_instruction(self, DepositAllBuckets(account))

\* build with a slip: the body is put before the reservations.
build_body_first(self, signers) ==
    IF self.errors # <<>>
    THEN [self |-> self, ret |-> Err(self.errors[1])]
    ELSE [self |-> self,
          ret |-> Ok(self.instructions \o self.reservations \o <<End(signers)>>)]

\* build with a slip: the last recorded error is returned.
build_last_error(self, signers) ==
    IF self.errors # <<>>
    THEN [self |-> self, ret |-> Err(self.errors[Len(self.errors)])]
    ELSE [self |-> self,
          ret |-> Ok(self.reservations \o self.instructions \o <<End(signers)>>)]

\* build with a slip: End does not carry the signers.
build_unsigned(self, signers) ==
    IF self.errors # <<>>
    THEN [self |-> self, ret |-> Err(self.errors[1])]
    ELSE [self |-> self,
          ret |-> Ok(self.reservations \o self.instructions \o <<End(<<>>)>>)]

\* build with a slip: the instructions are moved out of the builder.
build_drain(self, signers) ==
    IF self.errors # <<>>
    THEN [self |-> self, ret |-> Err(self.errors[1])]
    ELSE [self |-> [self EXCEPT !.reservations = <<>>, !.instructions = <<>>],
          ret |-> Ok(self.reservations \o self.instructions \o <<End(signers)>>)]

\* build with a slip: the recorded errors are not looked at.
build_anyway(self, signers) ==
    [self |-> self,
     ret |-> Ok(self.reservations \o self.instructions \o <<End(signers)>>)]

\* build: the builder after the call and the value returned.
build(self, signers) ==
    IF self.errors # <<>>
    THEN [self |-> self, ret |-> Err(self.errors[1])]
    ELSE [self |-> self,
          ret |-> Ok(self.reservations \o self.instructions \o <<End(signers)>>)]

\* mint with a slip: the bucket reference is borrowed from the resource to
\* mint, not from the badge.
mint_borrow_resource(self, amt, addr, mint_badge_address) ==
    declare_bucket_ref(self,
        [k |-> "mint", amount |-> amt, resource_address |-> addr,
         mint_badge_address |-> addr])

mint(self, amt, addr, mint_badge_address) ==
    declare_bucket_ref(self,
        [k |-> "mint", amount |-> amt, resource_address |-> addr,
         mint_badge_address |-> mint_badge_address])

new_account_with_resource(self, key, amt, addr) ==
    declare_bucket(self,
        [k |-> "with_bucket", key |-> key, amount |-> amt,
         resource_address |-> addr])

\* withdraw_from_account with a slip: non-fungible ids are withdrawn by
\* their number, like an amount.
withdraw_from_account_counted(self, resource_spec, account) ==
    add_instruction(self,
        CallMethod(account, "withdraw",
                   << SmartValue_from("Decimal", amount(resource_spec)),
                      SmartValue_from("Address", resource_spec.resource_address) >>))

withdraw_from_account(self, resource_spec, account) ==
    IF resource_spec.variant = "Fungible"
    THEN add_instruction(self,
             CallMethod(account, "withdraw",
                        << SmartValue_from("Decimal", resource_spec.amount),
                           SmartValue_from("Address", resource_spec.resource_address) >>))
    ELSE add_instruction(self,
             CallMethod(account, "withdraw_nfts",
                        << SmartValue_from("BTreeSet", resource_spec.ids),
                           SmartValue_from("Address", resource_spec.resource_address) >>))

find_function_abi(abi, function) ==
    IF \E i \in 1..Len(abi.functions) : abi.functions[i].name = function
    THEN Ok(abi.functions[CHOOSE i \in 1..Len(abi.functions) :
                /\ abi.functions[i].name = function
                /\ \A j \in 1..(i - 1) : abi.functions[j].name # function])
    ELSE Err(FunctionNotFound(function))

find_method_abi(abi, method) ==
    IF \E i \in 1..Len(abi.methods) : abi.methods[i].name = method
    THEN Ok(abi.methods[CHOOSE i \in 1..Len(abi.methods) :
                /\ abi.methods[i].name = method
                /\ \A j \in 1..(i - 1) : abi.methods[j].name # method])
    ELSE Err(MethodNotFound(method))

map_err_FailedToParse(r, i, ty, arg) ==
    IF r.ok THEN r ELSE Err(FailedToParse(i, ty, arg))

parse_resource_spec(i, ty, arg) ==
    map_err_FailedToParse(ResourceAmount_from_str(arg), i, ty, arg)

\* T::from_str for the basic kinds.
basic_from_str(kind, arg) ==
    CASE kind = "Bool" -> Bool_from_str(arg)
      [] kind = "String" -> Ok(arg)
      [] OTHER -> Int_from_str(kind, arg)

\* A parsed value encoded, or FailedToParse.
encode_or_FailedToParse(value, tag, i, ty, arg) ==
    IF value.ok THEN Ok(SmartValue_from(tag, value.v))
    ELSE Err(FailedToParse(i, ty, arg))

\* prepare_basic_ty::<T>, T given by the kind of ty.
prepare_basic_ty(i, ty, arg) ==
    encode_or_FailedToParse(basic_from_str(ty.kind, arg), ty.kind, i, ty, arg)



\* created_id with a slip: the id after the one handed out is returned.
created_id_next(declared, tag) ==
    [self |-> declared,
     ret |-> Ok(SmartValue_from(tag, Last(declared.handed).id + 1))]

\* created_bid / created_rid: the id the continuation was given.
created_id(declared, tag) ==
    [self |-> declared,
     ret |-> Ok(SmartValue_from(tag, Last(declared.handed).id))]

\* withdraw_if_account with a slip: the withdraw is emitted without looking
\* at the account.
withdraw_always(self, resource_spec, account) ==
    withdraw_from_account(self, resource_spec, account)

\* `if let Some(account) = account { self.withdraw_from_account(..) }`
withdraw_if_account(self, resource_spec, account) ==
    IF account # None THEN withdraw_from_account(self, resource_spec, account)
    ELSE self

\* prepare_bucket with a slip: the withdraw is emitted after the bucket is
\* declared and filled.
prepare_bucket_withdraw_last(self, resource_spec, account) ==
    IF ~resource_spec.ok THEN [self |-> self, ret |-> resource_spec]
    ELSE created_id(
             withdraw_if_account(
                 declare_bucket(self,
                     [k |-> "take_from_context",
                      amount |-> amount(resource_spec.v),
                      resource_address |-> resource_address(resource_spec.v)]),
                 resource_spec.v, account),
             "Bid")

\* prepare_bucket with a slip: the bucket is declared before the text is
\* looked at.
prepare_bucket_declare_first(self, resource_spec, account) ==
    IF ~resource_spec.ok
    THEN [self |-> declare_bucket(self, [k |-> "identity"]),
          ret |-> resource_spec]
    ELSE created_id(
             declare_bucket(
                 withdraw_if_account(self, resource_spec.v, account),
                 [k |-> "take_from_context",
                  amount |-> amount(resource_spec.v),
                  resource_address |-> resource_address(resource_spec.v)]),
             "Bid")

\* The Bid / Bucket arm once the resource amount is parsed.
prepare_bucket(self, resource_spec, account) ==
    IF ~resource_spec.ok THEN [self |-> self, ret |-> resource_spec]
    ELSE created_id(
             declare_bucket(
                 withdraw_if_account(self, resource_spec.v, account),
                 [k |-> "take_from_context",
                  amount |-> amount(resource_spec.v),
                  resource_address |-> resource_address(resource_spec.v)]),
             "Bid")

\* prepare_bucket_ref with a slip: nothing is withdrawn for a bucket
\* reference.
prepare_bucket_ref_no_withdraw(self, resource_spec, account) ==
    IF ~resource_spec.ok THEN [self |-> self, ret |-> resource_spec]
    ELSE created_id(
             declare_bucket_ref(self,
                 [k |-> "borrow_from_context",
                  amount |-> amount(resource_spec.v),
                  resource_address |-> resource_address(resource_spec.v)]),
             "Rid")

\* The Rid / BucketRef arm once the resource amount is parsed.
prepare_bucket_ref(self, resource_spec, account) ==
    IF ~resource_spec.ok THEN [self |-> self, ret |-> resource_spec]
    ELSE created_id(
             declare_bucket_ref(
                 withdraw_if_account(self, resource_spec.v, account),
                 [k |-> "borrow_from_context",
                  amount |-> amount(resource_spec.v),
                  resource_address |-> resource_address(resource_spec.v)]),
             "Rid")

\* prepare_custom_ty: the builder after the call and the Result returned.
prepare_custom_ty(self, i, ty, arg, name, account) ==
    CASE name = SCRYPTO_NAME_DECIMAL ->
             [self |-> self,
              ret |-> encode_or_FailedToParse(Decimal_from_str(arg), "Decimal",
                                              i, ty, arg)]
      [] name = SCRYPTO_NAME_BIG_DECIMAL ->
             [self |-> self,
              ret |-> encode_or_FailedToParse(BigDecimal_from_str(arg),
                                              "BigDecimal", i, ty, arg)]
      [] name = SCRYPTO_NAME_ADDRESS ->
             [self |-> self,
              ret |-> encode_or_FailedToParse(Address_from_str(arg), "Address",
                                              i, ty, arg)]
      [] name = SCRYPTO_NAME_H256 ->
             [self |-> self,
              ret |-> encode_or_FailedToParse(H256_from_str(arg), "H256",
                                              i, ty, arg)]
      [] name \in {SCRYPTO_NAME_BID, SCRYPTO_NAME_BUCKET} ->
             prepare_bucket(self, parse_resource_spec(i, ty, arg), account)
      [] name \in {SCRYPTO_NAME_RID, SCRYPTO_NAME_BUCKET_REF} ->
             prepare_bucket_ref(self, parse_resource_spec(i, ty, arg), account)
      [] OTHER -> [self |-> self, ret |-> Err(UnsupportedType(i, ty))]

BasicKinds ==
    {"Bool", "I8", "I16", "I32", "I64", "I128", "U8", "U16", "U32", "U64",
     "U128", "String"}

\* prepare_arg with a slip: a missing argument is reported with its index
\* counted from 1.
prepare_arg_one_based(self, i, t, args, account) ==
    IF i >= Len(args) THEN [self |-> self, ret |-> Err(MissingArgument(i + 1, t))]
    ELSE IF t.kind \in BasicKinds
    THEN [self |-> self, ret |-> prepare_basic_ty(i, t, args[i + 1])]
    ELSE IF t.kind = "Custom"
    THEN prepare_custom_ty(self, i, t, args[i + 1], t.name, account)
    ELSE [self |-> self, ret |-> Err(UnsupportedType(i, t))]

\* One turn of the loop of prepare_args: parameter i (from 0) of type t.
prepare_arg(self, i, t, args, account) ==
    IF i >= Len(args) THEN [self |-> self, ret |-> Err(MissingArgument(i, t))]
    ELSE IF t.kind \in BasicKinds
    THEN [self |-> self, ret |-> prepare_basic_ty(i, t, args[i + 1])]
    ELSE IF t.kind = "Custom"
    THEN prepare_custom_ty(self, i, t, args[i + 1], t.name, account)
    ELSE [self |-> self, ret |-> Err(UnsupportedType(i, t))]

RECURSIVE prepare_args_from(_, _, _, _, _, _)
\* push_encoded with a slip: the value is put in front of the values of the
\* parameters before it.
push_encoded_front(res, types, args, account, i, encoded) ==
    IF ~res.ret.ok THEN res
    ELSE prepare_args_from(res.self, types, args, account, i + 1,
                           <<res.ret.v>> \o encoded)

\* `encoded.push(res?)`: return the error, or push and go on with i + 1.
push_encoded(res, types, args, account, i, encoded) ==
    IF ~res.ret.ok THEN res
    ELSE prepare_args_from(res.self, types, args, account, i + 1,
                           Append(encoded, res.ret.v))

\* The loop of prepare_args from parameter i on, `encoded` holding the values
\* of the parameters before it.
prepare_args_from(self, types, args, account, i, encoded) ==
    IF i >= Len(types) THEN [self |-> self, ret |-> Ok(encoded)]
    ELSE push_encoded(prepare_arg(self, i, types[i + 1], args, account),
                      types, args, account, i, encoded)

\* prepare_args with a slip: the raw arguments after those of the declared
\* parameters are taken as strings and passed on to the callee.
prepare_args_surplus_as_strings(self, types, args, account) ==
    prepare_args_from(self,
                      types \o [k \in 1..(Len(args) - Len(types)) |-> Type("String")],
                      args, account, 0, <<>>)

prepare_args(self, types, args, account) ==
    prepare_args_from(self, types, args, account, 0, <<>>)

\* push_error with a slip: an error already recorded is not recorded again.
push_error_once(self, e) ==
    IF \E i \in 1..Len(self.errors) : self.errors[i] = e THEN self
    ELSE [self EXCEPT !.errors = Append(@, e)]

\* push_error with a slip: the new error replaces the recorded ones.
push_error_replace(self, e) == [self EXCEPT !.errors = <<e>>]

\* push_error with a slip: the new error is put in front of the recorded
\* ones.
push_error_front(self, e) == [self EXCEPT !.errors = <<e>> \o @]

push_error(self, e) == [self EXCEPT !.errors = Append(@, e)]

\* The builder once `self.abi_provider` has been asked for an ABI.
asked(self) == [self EXCEPT !.queried = @ + 1]

\* Result::map_err over export_abi / export_abi_component.
map_err_export(abi, e) == IF abi.ok THEN abi ELSE Err(e)

\* and_then_find_function_abi with a slip: a failed export is reported as a
\* function that was not found.
and_then_find_function_abi_first(abi, function) ==
    IF abi.ok THEN find_function_abi(abi.v, function)
    ELSE Err(FunctionNotFound(function))

\* `.and_then(|abi| Self::find_function_abi(&abi, function))`
and_then_find_function_abi(abi, function) ==
    IF abi.ok THEN find_function_abi(abi.v, function) ELSE abi

\* `.and_then(|abi| Self::find_method_abi(&abi, method))`
and_then_find_method_abi(abi, method) ==
    IF abi.ok THEN find_method_abi(abi.v, method) ELSE abi

\* `.map_err(|e| BuildTransactionError::FailedToBuildArgs(e))`
map_err_FailedToBuildArgs(prepared) ==
    IF prepared.ret.ok THEN prepared
    ELSE [self |-> prepared.self,
          ret |-> Err(FailedToBuildArgs(prepared.ret.err))]

\* and_then_prepare_args with a slip: when an argument fails, what was
\* emitted for the arguments before it is dropped.
and_then_prepare_args_rollback(self, f, args, account) ==
    IF ~f.ok THEN [self |-> self, ret |-> f]
    ELSE IF prepare_args(self, f.v.inputs, args, account).ret.ok
    THEN prepare_args(self, f.v.inputs, args, account)
    ELSE [self |-> self,
          ret |-> Err(FailedToBuildArgs(
                      prepare_args(self, f.v.inputs, args, account).ret.err))]

\* `.and_then(|f| self.prepare_args(&f.inputs, args, account) ...)`
and_then_prepare_args(self, f, args, account) ==
    IF f.ok
    THEN map_err_FailedToBuildArgs(prepare_args(self, f.v.inputs, args, account))
    ELSE [self |-> self, ret |-> f]

\* The match of call_function with a slip: the call is emitted on an error
\* too.
match_call_function_always(res, package_address, blueprint_name, function) ==
    IF res.ret.ok
    THEN add_instruction(res.self,
             CallFunction(package_address, blueprint_name, function, res.ret.v))
    ELSE push_error(
             add_instruction(res.self,
                 CallFunction(package_address, blueprint_name, function, <<>>)),
             res.ret.err)

\* `match result` of call_function.
match_call_function(res, package_address, blueprint_name, function) ==
    IF res.ret.ok
    THEN add_instruction(res.self,
             CallFunction(package_address, blueprint_name, function, res.ret.v))
    ELSE push_error(res.self, res.ret.err)

call_function(self, package_address, blueprint_name, function, args, account) ==
    match_call_function(
        and_then_prepare_args(asked(self),
            and_then_find_function_abi(
                map_err_export(export_abi(package_address, blueprint_name),
                    FailedToExportFunctionAbi(package_address, blueprint_name,
                                              function)),
                function),
            args, account),
        package_address, blueprint_name, function)

\* The match of call_method with a slip: an error is recorded twice.
match_call_method_twice(res, component_address, method) ==
    IF res.ret.ok
    THEN add_instruction(res.self,
             CallMethod(component_address, method, res.ret.v))
    ELSE push_error(push_error(res.self, res.ret.err), res.ret.err)

\* `match result` of call_method.
match_call_method(res, component_address, method) ==
    IF res.ret.ok
    THEN add_instruction(res.self,
             CallMethod(component_address, method, res.ret.v))
    ELSE push_error(res.self, res.ret.err)

call_method(self, component_address, method, args, account) ==
    match_call_method(
        and_then_prepare_args(asked(self),
            and_then_find_method_abi(
                map_err_export(export_abi_component(component_address),
                    FailedToExportMethodAbi(component_address, method)),
                method),
            args, account),
        component_address, method)

(***************************************************************************)
(* The helpers whose target interface is built in.  A HashMap is the set   *)
(* of its (key, value) pairs, a bitmask the set of its bits, an Option a   *)
(* sequence of at most one value.                                          *)
(***************************************************************************)
\* resource_flags and resource_permissions.
MINTABLE == {"MINTABLE"}

BURNABLE == {"BURNABLE"}

MAY_MINT == {"MAY_MINT"}

MAY_BURN == {"MAY_BURN"}

\* ResourceType::Fungible { divisibility }
ResourceType_Fungible(divisibility) ==
    [variant |-> "Fungible", divisibility |-> divisibility]

\* NewSupply::Fungible { amount }
NewSupply_Fungible(amt) == [variant |-> "Fungible", amount |-> amt]

publish_package(self, code) ==
    add_instruction(self,
        CallFunction(SYSTEM_PACKAGE, "System", "publish_package",
                     << SmartValue_from("Vec<u8>", code) >>))

single_authority(badge, permission) == {<<badge, permission>>}

\* The CallFunction of System::new_resource with its six arguments.
new_resource(divisibility, metadata, flags, authorities, supply) ==
    CallFunction(SYSTEM_PACKAGE, "System", "new_resource",
        << SmartValue_from("ResourceType", ResourceType_Fungible(divisibility)),
           SmartValue_from("HashMap<String, String>", metadata),
           SmartValue_from("u16", flags),
           SmartValue_from("u16", {}),
           SmartValue_from("HashMap<Address, u16>", authorities),
           SmartValue_from("Option<NewSupply>", supply) >>)

new_token_mutable(self, metadata, mint_badge_address) ==
    add_instruction(self,
        new_resource(18, metadata, MINTABLE \cup BURNABLE,
                     single_authority(mint_badge_address, MAY_MINT \cup MAY_BURN),
                     <<>>))

new_token_fixed(self, metadata, initial_supply) ==
    add_instruction(self,
        new_resource(18, metadata, {}, {},
                     <<NewSupply_Fungible(initial_supply)>>))

new_badge_mutable(self, metadata, mint_badge_address) ==
    add_instruction(self,
        new_resource(0, metadata, MINTABLE \cup BURNABLE,
                     single_authority(mint_badge_address, MAY_MINT \cup MAY_BURN),
                     <<>>))

\* new_badge_fixed with a slip: the resource is created mintable and
\* burnable.
new_badge_fixed_mintable(self, metadata, initial_supply) ==
    add_instruction(self,
        new_resource(0, metadata, MINTABLE \cup BURNABLE, {},
                     <<NewSupply_Fungible(initial_supply)>>))

new_badge_fixed(self, metadata, initial_supply) ==
    add_instruction(self,
        new_resource(0, metadata, {}, {},
                     <<NewSupply_Fungible(initial_supply)>>))

\* new_account with a slip: the call goes through call_function, which asks
\* the ABI provider.
new_account_via_provider(self, key) ==
    call_function(self, ACCOUNT_PACKAGE, "Account", "new",
                  <<Address_to_str(key)>>, None)

new_account(self, key) ==
    add_instruction(self,
        CallFunction(ACCOUNT_PACKAGE, "Account", "new",
                     << SmartValue_from("Address", key) >>))

(***************************************************************************)
(* The state: one builder, the value returned by the last call on it, and  *)
(* history kept for stating properties: the last call with its arguments   *)
(* and the sizes before it, and which low-level calls were made directly:  *)
(* the ops handed to add_instruction, "unreserved" for a fill of an id not *)
(* handed out yet, "unfilled" for a continuation that emits no fill.       *)
(* `twin` is a second builder, created on its own, that only TwinSpec      *)
(* drives; there `nops` counts the calls made on either builder.           *)
(***************************************************************************)
\* The value of a call that returns the builder itself.
Self == [self |-> TRUE]

\* Sizes of a builder: what a later state is compared with.
Sizes(b) ==
    [reservations |-> Len(b.reservations), instructions |-> Len(b.instructions),
     errors |-> Len(b.errors), bid |-> b.allocator.bucket_counter,
     rid |-> b.allocator.bucket_ref_counter]

\* Raw argument texts.
Text10 == <<"1", "0">>

Text5Token == <<"5", ",", "3", "0">>

Text1Badge == <<"1", ",", "3", "1">>

TextNfts == <<"#", "1", ",", "#", "2", ",", "3", "0">>

TextX == <<"x">>

Call(package_address, blueprint_name, function, args, account) ==
    [package_address |-> package_address, blueprint_name |-> blueprint_name,
     function |-> function, args |-> args, account |-> account]

\* call_function inputs: a call without parameters, a package that cannot be
\* exported (asked for a function the blueprint of the model does not have
\* either), an unknown function, a resource parameter with and without an
\* account, a missing argument, a text that does not parse after a resource
\* parameter and one before a resource parameter, and two resource parameters
\* of different kinds.
FunctionCalls ==
    { Call(PACKAGE, "Shop", "new", <<>>, None),
      Call(ACCOUNT_PACKAGE, "Shop", "nope", <<TextX>>, None),
      Call(PACKAGE, "Shop", "nope", <<>>, None),
      Call(PACKAGE, "Shop", "buy", <<Text10, Text5Token>>, None),
      Call(PACKAGE, "Shop", "buy", <<Text10, Text5Token>>, ACCOUNT),
      Call(PACKAGE, "Shop", "buy", <<Text10>>, None),
      Call(PACKAGE, "Shop", "swap", <<Text5Token, TextX>>, ACCOUNT),
      Call(PACKAGE, "Shop", "buy", <<TextX, Text5Token>>, ACCOUNT),
      Call(PACKAGE, "Shop", "auth", <<Text1Badge, TextNfts>>, None) }

MethodCall(component_address, method, args, account) ==
    [component_address |-> component_address, method |-> method,
     args |-> args, account |-> account]

MethodCalls ==
    { MethodCall(COMPONENT, "deposit", <<Text1Badge, Text5Token>>, ACCOUNT),
      MethodCall(ACCOUNT, "deposit", <<Text1Badge, Text5Token>>, ACCOUNT),
      MethodCall(COMPONENT, "nope", <<>>, None),
      MethodCall(COMPONENT, "deposit", <<Text1Badge>>, None) }

\* Instructions a caller may hand to add_instruction itself.
RawInstructions == {DeclareTempBucket, End(<<>>)}

\* Continuations a caller may give to declare_bucket / declare_bucket_ref.
CallerThenBid ==
    { [k |-> "identity"],
      [k |-> "take_from_context", amount |-> Decimal_from(5),
       resource_address |-> TOKEN] }

CallerThenRid ==
    { [k |-> "identity"],
      [k |-> "borrow_from_context", amount |-> Decimal_from(1),
       resource_address |-> BADGE] }

\* Ids a caller may pass to take_from_context / borrow_from_context itself.
CallerBids == {0, 1}

CallerRids == {0}

SignerLists == {<<>>, <<KEY>>}

Init ==
    /\ builder = new
    /\ result = Self
    /\ last = [op |-> "new", pre |-> Sizes(new)]
    /\ raw = {}
    /\ nops = 0
    /\ twin = new

\* A call that returns the builder: the builder after it and the history.
Mutate(after, call, direct) ==
    /\ nops < MaxOps
    /\ builder' = after
    /\ result' = Self
    /\ last' = call
    /\ raw' = raw \cup direct
    /\ nops' = nops + 1
    /\ UNCHANGED twin

OpAddInstruction ==
    \E inst \in RawInstructions :
        Mutate(add_instruction(builder, inst),
               [op |-> "add_instruction", inst |-> inst, pre |-> Sizes(builder)],
               {inst.op})

OpDeclareBucket ==
    \E then \in CallerThenBid :
        Mutate(declare_bucket(builder, then),
               [op |-> "declare_bucket", then |-> then, pre |-> Sizes(builder)],
               IF then.k = "identity" THEN {"unfilled"} ELSE {})

OpDeclareBucketRef ==
    \E then \in CallerThenRid :
        Mutate(declare_bucket_ref(builder, then),
               [op |-> "declare_bucket_ref", then |-> then, pre |-> Sizes(builder)],
               IF then.k = "identity" THEN {"unfilled"} ELSE {})

OpTakeFromContext ==
    \E to \in CallerBids :
        Mutate(take_from_context(builder, Decimal_from(5), TOKEN, to),
               [op |-> "take_from_context", to |-> to, pre |-> Sizes(builder)],
               IF to >= builder.allocator.bucket_counter
               THEN {"unreserved"} ELSE {})

OpBorrowFromContext ==
    \E to \in CallerRids :
        Mutate(borrow_from_context(builder, Decimal_from(1), BADGE, to),
               [op |-> "borrow_from_context", to |-> to, pre |-> Sizes(builder)],
               IF to >= builder.allocator.bucket_ref_counter
               THEN {"unreserved"} ELSE {})

OpCallFunction ==
    \E c \in FunctionCalls :
        Mutate(call_function(builder, c.package_address, c.blueprint_name,
                             c.function, c.args, c.account),
               [op |-> "call_function", call |-> c, pre |-> Sizes(builder)],
               {})

OpCallMethod ==
    \E c \in MethodCalls :
        Mutate(call_method(builder, c.component_address, c.method, c.args,
                           c.account),
               [op |-> "call_method", mcall |-> c, pre |-> Sizes(builder)],
               {})

OpDropAllBucketRefs ==
    Mutate(drop_all_bucket_refs(builder),
           [op |-> "drop_all_bucket_refs", pre |-> Sizes(builder)], {})

OpDepositAllBuckets ==
    Mutate(deposit_all_buckets(builder, ACCOUNT),
           [op |-> "deposit_all_buckets", pre |-> Sizes(builder)], {})

OpMint ==
    Mutate(mint(builder, Decimal_from(5), TOKEN, BADGE),
           [op |-> "mint", pre |-> Sizes(builder)], {})

OpNewAccountWithResource ==
    Mutate(new_account_with_resource(builder, KEY, Decimal_from(5), TOKEN),
           [op |-> "new_account_with_resource", pre |-> Sizes(builder)], {})

OpBuild ==
    \E signers \in SignerLists :
        LET built == build(builder, signers)
        IN  /\ builder' = built.self
            /\ result' = built.ret
            /\ last' = [op |-> "build", signers |-> signers, pre |-> Sizes(builder)]
            /\ UNCHANGED <<raw, nops, twin>>

Next ==
    \/ OpAddInstruction
    \/ OpDeclareBucket
    \/ OpDeclareBucketRef
    \/ OpTakeFromContext
    \/ OpBorrowFromContext
    \/ OpCallFunction
    \/ OpCallMethod
    \/ OpDropAllBucketRefs
    \/ OpDepositAllBuckets
    \/ OpMint
    \/ OpNewAccountWithResource
    \/ OpBuild

Spec == Init /\ [][Next]_vars

(***************************************************************************)
(* The built-in helpers on a builder, next to a call that fails and build. *)
(***************************************************************************)
\* Metadata given to the resource helpers.
Metadatas == { {}, {<<"name", "T">>} }

\* Resource amounts given to withdraw_from_account.
WithdrawAmounts ==
    { Fungible(Decimal_from(5), TOKEN), NonFungible({1, 2}, TOKEN) }

OpPublishPackage ==
    Mutate(publish_package(builder, <<0, 97>>),
           [op |-> "publish_package", pre |-> Sizes(builder)], {})

OpNewTokenMutable ==
    \E metadata \in Metadatas :
        Mutate(new_token_mutable(builder, metadata, BADGE),
               [op |-> "new_token_mutable", metadata |-> metadata,
                badge |-> BADGE, pre |-> Sizes(builder)], {})

OpNewTokenFixed ==
    \E metadata \in Metadatas :
        Mutate(new_token_fixed(builder, metadata, Decimal_from(120)),
               [op |-> "new_token_fixed", metadata |-> metadata,
                supply |-> Decimal_from(120), pre |-> Sizes(builder)], {})

OpNewBadgeMutable ==
    \E metadata \in Metadatas :
        Mutate(new_badge_mutable(builder, metadata, BADGE),
               [op |-> "new_badge_mutable", metadata |-> metadata,
                badge |-> BADGE, pre |-> Sizes(builder)], {})

OpNewBadgeFixed ==
    \E metadata \in Metadatas, supply \in {Decimal_from(0), Decimal_from(1)} :
        Mutate(new_badge_fixed(builder, metadata, supply),
               [op |-> "new_badge_fixed", metadata |-> metadata,
                supply |-> supply, pre |-> Sizes(builder)], {})

OpNewAccount ==
    Mutate(new_account(builder, KEY),
           [op |-> "new_account", pre |-> Sizes(builder)], {})

OpWithdrawFromAccount ==
    \E resource_spec \in WithdrawAmounts, account \in {ACCOUNT, COMPONENT} :
        Mutate(withdraw_from_account(builder, resource_spec, account),
               [op |-> "withdraw_from_account", resource_spec |-> resource_spec,
                account |-> account, pre |-> Sizes(builder)], {})

\* A call the provider cannot answer, and one it can.
OpCallShop ==
    \E c \in { Call(ACCOUNT_PACKAGE, "Shop", "new", <<>>, None),
               Call(PACKAGE, "Shop", "new", <<>>, None) } :
        Mutate(call_function(builder, c.package_address, c.blueprint_name,
                             c.function, c.args, c.account),
               [op |-> "call_function", call |-> c, pre |-> Sizes(builder)],
               {})

HelperNext ==
    \/ OpPublishPackage
    \/ OpNewTokenMutable
    \/ OpNewTokenFixed
    \/ OpNewBadgeMutable
    \/ OpNewBadgeFixed
    \/ OpMint
    \/ OpNewAccount
    \/ OpNewAccountWithResource
    \/ OpWithdrawFromAccount
    \/ OpCallShop
    \/ OpBuild

HelperSpec == Init /\ [][HelperNext]_vars

(***************************************************************************)
(* Two builders, each created by new and used against the same ABI         *)
(* provider.  Every call is made on one of them and leaves the other       *)
(* alone; the calls on the two are interleaved in every way, and the calls *)
(* each builder received are kept in a log of its own.                     *)
(***************************************************************************)
\* Number of calls made on each of the two builders.
MaxTwinOps == 2

\* The calls made on the two builders: a call that fails after it reserved
\* a bucket, a call that reserves an id of each kind, and a call whose method
\* is not found.
TwinFunctionCalls ==
    { Call(PACKAGE, "Shop", "swap", <<Text5Token, TextX>>, ACCOUNT),
      Call(PACKAGE, "Shop", "auth", <<Text1Badge, TextNfts>>, None) }

TwinMethodCalls == { MethodCall(COMPONENT, "nope", <<>>, None) }

TwinThenBid ==
    { [k |-> "take_from_context", amount |-> Decimal_from(5),
       resource_address |-> TOKEN] }

\* The builder with number `who`.
Target(who) == IF who = 1 THEN builder ELSE twin

\* The calls each of the two builders has received, oldest first.
TwinLogs == IF last.op = "new" THEN << <<>>, <<>> >> ELSE last.logs

\* The value the last call on each of the two builders returned.
Returned == IF result = Self THEN [first |-> Self, second |-> Self] ELSE result

\* A call on builder `who`: the builder after it, the call as it is logged
\* and the value it returns.
TwinStep(who, after, entry, ret) ==
    /\ Len(TwinLogs[who]) < MaxTwinOps
    /\ builder' = (IF who = 1 THEN after ELSE builder)
    /\ twin' = (IF who = 2 THEN after ELSE twin)
    /\ result' = (IF who = 1 THEN [Returned EXCEPT !.first = ret]
                  ELSE [Returned EXCEPT !.second = ret])
    /\ last' = [op |-> entry.op, who |-> who, entry |-> entry,
                pre |-> Sizes(Target(who)),
                logs |-> [TwinLogs EXCEPT ![who] = Append(@, entry)]]
    /\ nops' = nops + 1
    /\ UNCHANGED raw

TwinCallFunction ==
    \E who \in {1, 2}, c \in TwinFunctionCalls :
        TwinStep(who,
                 call_function(Target(who), c.package_address, c.blueprint_name,
                               c.function, c.args, c.account),
                 [op |-> "call_function", call |-> c], Self)

TwinCallMethod ==
    \E who \in {1, 2}, c \in TwinMethodCalls :
        TwinStep(who,
                 call_method(Target(who), c.component_address, c.method, c.args,
                             c.account),
                 [op |-> "call_method", mcall |-> c], Self)

TwinDeclareBucket ==
    \E who \in {1, 2}, then \in TwinThenBid :
        TwinStep(who, declare_bucket(Target(who), then),
                 [op |-> "declare_bucket", then |-> then], Self)

TwinMint ==
    \E who \in {1, 2} :
        TwinStep(who, mint(Target(who), Decimal_from(5), TOKEN, BADGE),
                 [op |-> "mint"], Self)

\* build on one of the two builders, and the value it returns.
TwinBuild ==
    \E who \in {1, 2} :
        TwinStep(who, build(Target(who), <<KEY>>).self,
                 [op |-> "build", signers |-> <<KEY>>],
                 build(Target(who), <<KEY>>).ret)

TwinNext ==
    \/ TwinCallFunction
    \/ TwinCallMethod
    \/ TwinDeclareBucket
    \/ TwinMint
    \/ TwinBuild

TwinSpec == Init /\ [][TwinNext]_vars

(***************************************************************************)
(* The resource amount grammar on its own: texts are parsed, and resource  *)
(* amounts are written as text and parsed back.                            *)
(***************************************************************************)
\* "{A},{R}"
Fungible_to_str(amt, addr) ==
    Decimal_to_str(amt) \o <<",">> \o Address_to_str(addr)

RECURSIVE NonFungible_to_str(_, _)
\* "#i1,...,#ik,{R}" for the ids in the order given.
NonFungible_to_str(ids, addr) ==
    IF ids = <<>> THEN Address_to_str(addr)
    ELSE <<"#">> \o Digits(Head(ids)) \o <<",">>
             \o NonFungible_to_str(Tail(ids), addr)

\* Tokens the parsed texts are made of: an amount, ids, a word, an address,
\* a bare '#', a signed id, an amount with a fraction, and nothing.
Tokens ==
    { <<"1">>, <<"#", "1">>, <<"#", "2">>, <<"x">>, <<"3", "0">>, <<"#">>,
      <<"#", "+", "7">>, <<"1", ".", "5">>, <<>> }

\* Most tokens in a text.
MaxTokens == 3

RECURSIVE Join(_)
\* The tokens with a comma between them.
Join(tokens) ==
    IF Len(tokens) = 1 THEN tokens[1]
    ELSE tokens[1] \o <<",">> \o Join(Tail(tokens))

TokenLists == UNION {[1..n -> Tokens] : n \in 1..MaxTokens}

\* The four texts the grammar is documented with.
TextAbc == <<"a", "b", "c">>

TextBadAddress ==
    <<"1", ",", "2", ",", "b", "a", "d", "_", "a", "d", "d", "r", "e", "s", "s">>

TextNftNoHash == <<"#", "1", ",", "2", ",", "3", "0">>

TextFourTokens == <<"1", ",", "2", ",", "3", ",", "3", "0">>

\* A text with blanks around it, and one with a blank inside.
TextPadded == <<" ", "5", ",", "3", "0", " ">>

TextInnerBlank == <<"5", ",", " ", "3", "0">>

\* Runs of whitespace put before and after a text: none, one character of
\* each kind, and runs of two.
Paddings ==
    {<<>>, <<"\r", "\n">>, <<" ", "\t">>} \cup {<<c>> : c \in WhitespaceChars}

\* "5,30" with whitespace before and after it, and whitespace alone.
PaddedTexts == {pre \o Text5Token \o post : pre, post \in Paddings}

\* A text with a tab inside a token.
TextInnerTab == <<"5", "\t", ",", "3", "0">>

\* Texts with characters that are not whitespace at the ends: U+200B (zero
\* width space), U+00E9 and an underscore.
NotPaddedTexts ==
    { <<"U+200B">> \o Text5Token, Text5Token \o <<"U+00E9">>,
      <<"_">> \o Text5Token \o <<"\t">> }

ParseTexts ==
    {Join(t) : t \in TokenLists}
        \cup {TextAbc, TextBadAddress, TextNftNoHash, TextFourTokens,
              TextPadded, TextInnerBlank, TextInnerTab}
        \cup PaddedTexts \cup Paddings \cup NotPaddedTexts

\* Amounts and addresses written as text and parsed back.
RoundTripAmounts ==
    { Decimal(1, 0, <<>>), Decimal(1, 5, <<>>), Decimal(1, 120, <<>>),
      Decimal(1, 1, <<"5">>), Decimal(1, 0, <<"0", "5">>), Decimal(-1, 3, <<>>) }

RoundTripAddresses == {TOKEN, BADGE, Address_from_str(<<"3", "a">>).v}

RoundTripIds == {0, 1, 2, 10}

\* The non-empty lists of distinct ids, in every order.
RoundTripIdLists ==
    {ids \in UNION {[1..n -> RoundTripIds] : n \in 1..3} :
        \A i, j \in 1..Len(ids) : i # j => ids[i] # ids[j]}

\* ResourceAmount::from_str on a text.  Parsing is a function of the text
\* alone, so each text is parsed from the initial state.
OpFromStr ==
    \E s \in ParseTexts :
        /\ last.op = "new"
        /\ result' = ResourceAmount_from_str(s)
        /\ last' = [op |-> "from_str", s |-> s]
        /\ UNCHANGED <<builder, raw, nops, twin>>

\* A fungible amount written as text and parsed.
OpRoundTripFungible ==
    \E amt \in RoundTripAmounts, addr \in RoundTripAddresses :
        /\ last.op = "new"
        /\ result' = ResourceAmount_from_str(Fungible_to_str(amt, addr))
        /\ last' = [op |-> "round_trip", s |-> Fungible_to_str(amt, addr),
                    value |-> Fungible(amt, addr)]
        /\ UNCHANGED <<builder, raw, nops, twin>>

\* Non-fungible ids written as text, in some order, and parsed.
OpRoundTripNonFungible ==
    \E ids \in RoundTripIdLists, addr \in RoundTripAddresses :
        /\ last.op = "new"
        /\ result' = ResourceAmount_from_str(NonFungible_to_str(ids, addr))
        /\ last' = [op |-> "round_trip", s |-> NonFungible_to_str(ids, addr),
                    value |-> NonFungible({ids[i] : i \in 1..Len(ids)}, addr)]
        /\ UNCHANGED <<builder, raw, nops, twin>>

ParseNext ==
    \/ OpFromStr
    \/ OpRoundTripFungible
    \/ OpRoundTripNonFungible

ParseSpec == Init /\ [][ParseNext]_vars

(***************************************************************************)
(* Vocabulary of the properties.                                           *)
(***************************************************************************)
(***************************************************************************)
(* Argument coercion on its own: the first call_function / call_method on  *)
(* a builder, for every declared type and a range of raw texts, next to    *)
(* mint and new_account_with_resource, which move the counters, and build. *)
(***************************************************************************)
TextTrue == <<"t", "r", "u", "e">>

Text300 == <<"3", "0", "0">>

TextMinus1 == <<"-", "1">>

TextAddress == <<"3", "0">>

TextH256 == <<"a", "b", "c", "d">>

TextSameNft == <<"#", "1", ",", "#", "1", ",", "3", "0">>

TextNftBadId == <<"#", "1", ",", "#", "x", ",", "3", "0">>

Text5NoAddress == <<"5", ",", "3", "x">>

\* Raw texts given to the functions and methods of blueprint "Probe".
ProbeTexts ==
    { Text10, TextX, TextTrue, Text300, TextMinus1, TextAddress, TextH256,
      Text5Token, TextNfts, TextSameNft, TextNftBadId, Text5NoAddress, <<>> }

ProbeFunctionCalls ==
    { Call(PACKAGE, "Probe", TypeName(ProbeTypes[k]), <<arg>>, account) :
          k \in 1..Len(ProbeTypes), arg \in ProbeTexts,
          account \in {None, ACCOUNT} }

ProbeMethodCalls ==
    { MethodCall(PROBE, TypeName(ProbeTypes[k]), <<first, arg>>, account) :
          k \in 1..Len(ProbeTypes), first \in {Text5Token, TextSameNft},
          arg \in ProbeTexts, account \in {None, ACCOUNT} }

\* Calls of blueprint "Shop" with several parameters: without resource
\* parameters and with an account, and with resource parameters of both
\* kinds between other parameters.
ShopFunctionCalls ==
    { Call(PACKAGE, "Shop", "new", <<>>, ACCOUNT),
      Call(PACKAGE, "Shop", "pair", <<Text5Token, Text1Badge, TextNfts>>, None),
      Call(PACKAGE, "Shop", "pair", <<Text5Token, Text1Badge, TextNfts>>, ACCOUNT),
      Call(PACKAGE, "Shop", "pair", <<Text5Token, Text1Badge, TextX>>, ACCOUNT),
      Call(PACKAGE, "Shop", "trade",
           <<Text1Badge, Text10, TextSameNft, TextNfts, TextX>>, None),
      Call(PACKAGE, "Shop", "trade",
           <<Text1Badge, Text10, TextSameNft, TextNfts, TextX>>, ACCOUNT),
      Call(PACKAGE, "Shop", "trade",
           <<Text1Badge, Text300, TextSameNft, TextNfts, TextX>>, ACCOUNT) }

ShopMethodCalls ==
    { MethodCall(COMPONENT, "free_token", <<>>, ACCOUNT),
      MethodCall(COMPONENT, "set_rate", <<Text10>>, ACCOUNT),
      MethodCall(COMPONENT, "set_rate", <<Text10>>, None),
      MethodCall(COMPONENT, "set_rate", <<TextX>>, ACCOUNT) }

\* Raw texts a caller supplies after those of the declared parameters.
SurplusTexts == { <<Text5Token>>, <<TextX, TextNfts>> }

\* Calls that supply more raw arguments than the callee declares: each
\* function of blueprint "Probe" with texts after that of its one parameter,
\* each method with a text after those of its two, and callees of blueprint
\* "Shop" with no, one and three parameters.
SurplusFunctionCalls ==
    { Call(PACKAGE, "Probe", TypeName(ProbeTypes[k]), <<arg>> \o rest, ACCOUNT) :
          k \in 1..Len(ProbeTypes), arg \in ProbeTexts, rest \in SurplusTexts }
    \cup { Call(PACKAGE, "Shop", "new", rest, account) :
               rest \in SurplusTexts, account \in {None, ACCOUNT} }
    \cup { Call(PACKAGE, "Shop", "pair",
                <<Text5Token, Text1Badge, TextNfts>> \o rest, account) :
               rest \in SurplusTexts, account \in {None, ACCOUNT} }
    \cup { Call(PACKAGE, "Shop", "pair",
                <<Text5Token, TextX, TextNfts, Text5Token>>, ACCOUNT),
           Call(PACKAGE, "Shop", "nope", <<Text10>>, None) }

SurplusMethodCalls ==
    { MethodCall(PROBE, TypeName(ProbeTypes[k]),
                 <<Text5Token, arg, Text5Token>>, ACCOUNT) :
          k \in 1..Len(ProbeTypes), arg \in ProbeTexts }
    \cup { MethodCall(COMPONENT, "free_token", rest, account) :
               rest \in SurplusTexts, account \in {None, ACCOUNT} }
    \cup { MethodCall(COMPONENT, "set_rate", <<Text10>> \o rest, account) :
               rest \in SurplusTexts, account \in {None, ACCOUNT} }

\* The first call_function on a builder.
OpProbeFunction ==
    \E c \in ProbeFunctionCalls \cup ShopFunctionCalls \cup FunctionCalls
                 \cup SurplusFunctionCalls :
        /\ builder.queried = 0
        /\ Mutate(call_function(builder, c.package_address, c.blueprint_name,
                                c.function, c.args, c.account),
                  [op |-> "call_function", call |-> c, pre |-> Sizes(builder)],
                  {})

\* The first call_method on a builder.
OpProbeMethod ==
    \E c \in ProbeMethodCalls \cup ShopMethodCalls \cup MethodCalls
                 \cup SurplusMethodCalls :
        /\ builder.queried = 0
        /\ Mutate(call_method(builder, c.component_address, c.method, c.args,
                              c.account),
                  [op |-> "call_method", mcall |-> c, pre |-> Sizes(builder)],
                  {})

ArgsNext ==
    \/ OpProbeFunction
    \/ OpProbeMethod
    \/ OpMint
    \/ OpNewAccountWithResource
    \/ OpBuild

ArgsSpec == Init /\ [][ArgsNext]_vars

(***************************************************************************)
(* mint and new_account_with_resource with a range of arguments, between   *)
(* reservations made by the caller, a call that fails and build.           *)
(***************************************************************************)
OpMintOf ==
    \E amt \in {Decimal_from(5), Decimal(1, 1, <<"5">>)},
       addr \in {TOKEN, BADGE}, mint_badge_address \in {TOKEN, BADGE} :
        Mutate(mint(builder, amt, addr, mint_badge_address),
               [op |-> "mint", amount |-> amt, resource_address |-> addr,
                mint_badge_address |-> mint_badge_address,
                pre |-> Sizes(builder)], {})

OpNewAccountWithResourceOf ==
    \E key \in {KEY, Address_from_str(<<"4", "1">>).v},
       amt \in {Decimal_from(5), Decimal_from(0)}, addr \in {TOKEN, BADGE} :
        Mutate(new_account_with_resource(builder, key, amt, addr),
               [op |-> "new_account_with_resource", key |-> key,
                amount |-> amt, resource_address |-> addr,
                pre |-> Sizes(builder)], {})

ReserveNext ==
    \/ OpMintOf
    \/ OpNewAccountWithResourceOf
    \/ OpDeclareBucket
    \/ OpDeclareBucketRef
    \/ OpCallShop
    \/ OpBuild

ReserveSpec == Init /\ [][ReserveNext]_vars

IsPrefix(s, t) == Len(s) <= Len(t) /\ SubSeq(t, 1, Len(s)) = s

NotDeclaration(inst) == ~IsDeclaration(inst)

\* The state right after a build that returned a program.
Built == last.op = "build" /\ result.ok

\* The declaration instruction of a kind of id.
DeclarationOf(kind) ==
    IF kind = "Bid" THEN DeclareTempBucket ELSE DeclareTempBucketRef

\* How many instructions with this op precede place j of program p.
CountBefore(p, j, op) == Cardinality({i \in 1..(j - 1) : p[i].op = op})

\* An id of this kind used at place j of p has its declaration before j.
DeclaredBefore(p, j, kind, id) ==
    id < CountBefore(p, j, DeclarationOf(kind).op)

\* Every id an instruction of p refers to is declared before it.
ReferencesDeclared(p) ==
    \A j \in 1..Len(p) :
        /\ p[j].op = "TakeFromContext" => DeclaredBefore(p, j, "Bid", p[j].to)
        /\ p[j].op = "BorrowFromContext" => DeclaredBefore(p, j, "Rid", p[j].to)
        /\ p[j].op \in {"CallFunction", "CallMethod"} =>
               \A a \in 1..Len(p[j].args) :
                   p[j].args[a][1] \in {"Bid", "Rid"} =>
                       DeclaredBefore(p, j, p[j].args[a][1], p[j].args[a][2])

CallOps == {"call_function", "call_method"}

\* The callee of a recorded call_function / call_method: Ok(its ABI entry),
\* or the error of the export or of the lookup.
CalleeOf(l) ==
    IF l.op = "call_function"
    THEN and_then_find_function_abi(
             export_abi(l.call.package_address, l.call.blueprint_name),
             l.call.function)
    ELSE and_then_find_method_abi(
             export_abi_component(l.mcall.component_address), l.mcall.method)

ArgsOf(l) == IF l.op = "call_function" THEN l.call.args ELSE l.mcall.args

AccountOf(l) == IF l.op = "call_function" THEN l.call.account ELSE l.mcall.account

IsResourceType(t) ==
    /\ t.kind = "Custom"
    /\ t.name \in {SCRYPTO_NAME_BID, SCRYPTO_NAME_BUCKET, SCRYPTO_NAME_RID,
                   SCRYPTO_NAME_BUCKET_REF}

\* Whether a raw text coerces to a declared type (the builder plays no part).
Coerces(t, arg) == prepare_arg(new, 0, t, <<arg>>, None).ret.ok

\* The resource-typed parameters before the parameter a coercion error names.
ResourceParamsBefore(l, e) ==
    IF e.e = "FailedToBuildArgs"
    THEN {i \in 1..e.cause.i : IsResourceType(CalleeOf(l).v.inputs[i])}
    ELSE {}

\* An instruction resource binding emits: a fill, or a withdraw on the account.
IsBindingInstruction(inst, account) ==
    \/ inst.op \in {"TakeFromContext", "BorrowFromContext"}
    \/ /\ inst.op = "CallMethod"
       /\ inst.component_address = account
       /\ inst.method \in {"withdraw", "withdraw_nfts"}

\* The instructions the last call appended to the body.
AppendedSince(pre) ==
    SubSeq(builder.instructions, pre.instructions + 1, Len(builder.instructions))

(***************************************************************************)
(* C1: hoisting.                                                           *)
(***************************************************************************)
\* C1 as stated: in every program returned by build, whatever the calls made
\* on the builder, every declaration comes before every other instruction.
C1_Original ==
    Built =>
        \A i, j \in 1..Len(result.v) :
            (i < j /\ IsDeclaration(result.v[j])) => IsDeclaration(result.v[i])

\* C1 amended: when no declaration was handed to add_instruction directly,
\* every program returned by build has all declarations before every other
\* instruction, the declarations in the order they were reserved and the
\* other instructions in the order they were emitted.
C1_Hoisting ==
    (Built /\ raw \cap {"DeclareTempBucket", "DeclareTempBucketRef"} = {}) =>
        /\ \A i, j \in 1..Len(result.v) :
               (i < j /\ IsDeclaration(result.v[j])) => IsDeclaration(result.v[i])
        /\ SelectSeq(result.v, IsDeclaration)
               = [k \in 1..Len(builder.handed) |->
                      DeclarationOf(builder.handed[k].kind)]
        /\ SelectSeq(result.v, NotDeclaration)
               = builder.instructions \o <<End(last.signers)>>

\* A built program with declarations of both kinds and several body
\* instructions, no declaration having been added directly.
C1_Witness ==
    /\ Built
    /\ raw \cap {"DeclareTempBucket", "DeclareTempBucketRef"} = {}
    /\ \E k \in 1..Len(builder.handed) : builder.handed[k].kind = "Bid"
    /\ \E k \in 1..Len(builder.handed) : builder.handed[k].kind = "Rid"
    /\ Len(builder.instructions) >= 3

(***************************************************************************)
(* C2: declared before use.                                                *)
(***************************************************************************)
\* C2 as stated: in every program returned by build, whatever the public
\* calls made on the builder, each referenced bucket / bucket-ref id has a
\* declaration of its kind earlier in the program.
C2_Original == Built => ReferencesDeclared(result.v)

\* C2 amended: when take_from_context / borrow_from_context were never called
\* directly with an id not yet handed out by declare_bucket /
\* declare_bucket_ref, each id referenced in a built program, as the target of
\* a fill or as a call argument, is smaller than the number of declarations of
\* its kind before the referencing instruction.
C2_DeclaredBeforeUse ==
    (Built /\ "unreserved" \notin raw) => ReferencesDeclared(result.v)

\* A built program with a fill of each kind and a call that takes a bucket,
\* every id coming from a reservation.
C2_Witness ==
    /\ Built
    /\ "unreserved" \notin raw
    /\ \E j \in 1..Len(result.v) : result.v[j].op = "BorrowFromContext"
    /\ \E j \in 1..Len(result.v) :
           /\ result.v[j].op = "CallFunction"
           /\ \E a \in 1..Len(result.v[j].args) :
                  result.v[j].args[a] = SmartValue_from("Bid", 1)

(***************************************************************************)
(* C3, C4: the ids handed out.                                             *)
(***************************************************************************)
\* C3: the ids handed to the continuations are 0, 1, 2, ... for buckets and,
\* independently, 0, 1, 2, ... for bucket references: each reservation gets
\* the number of earlier reservations of its own kind.
C3_IdsPerKind ==
    \A k \in 1..Len(builder.handed) :
        builder.handed[k].id
            = Cardinality({j \in 1..(k - 1) :
                               builder.handed[j].kind = builder.handed[k].kind})

\* Reservations of both kinds interleaved: a bucket, then a bucket reference,
\* then a bucket again, which gets id 1 while the reference has id 0.
C3_Witness ==
    \E k \in 3..Len(builder.handed) :
        /\ builder.handed[k].kind = "Bid" /\ builder.handed[k].id = 1
        /\ builder.handed[k - 1].kind = "Rid" /\ builder.handed[k - 1].id = 0
        /\ builder.handed[k - 2].kind = "Bid"

\* C4: in a built program, the declaration a reservation appended is a
\* declaration of its kind, and the id handed out equals the number of
\* declarations of that kind before it in the program.
C4_IdIsOrdinal ==
    Built =>
        \A k \in 1..Len(builder.handed) :
            /\ result.v[builder.handed[k].at]
                   = DeclarationOf(builder.handed[k].kind)
            /\ builder.handed[k].id
                   = CountBefore(result.v, builder.handed[k].at,
                                 DeclarationOf(builder.handed[k].kind).op)

\* A built program whose second declaration is a bucket reference with id 0
\* and whose third is a bucket with id 1.
C4_Witness ==
    /\ Built
    /\ \E k \in 3..Len(builder.handed) :
           /\ builder.handed[k].kind = "Bid" /\ builder.handed[k].id = 1
           /\ builder.handed[k - 1].kind = "Rid"
    /\ Len(builder.instructions) >= 2

(***************************************************************************)
(* C5 - C7: build.                                                         *)
(***************************************************************************)
\* C5: when errors are recorded, build fails and returns the first recorded
\* error, not a later one.
C5_FirstErrorWins ==
    (last.op = "build" /\ builder.errors # <<>>) =>
        result = Err(builder.errors[1])

\* Two invalid call_function calls in a row, with different errors, and then
\* build: it returned the error of the first call.
C5_Witness ==
    /\ last.op = "build"
    /\ Len(builder.errors) = 2
    /\ builder.errors[1].e = "FunctionNotFound"
    /\ builder.errors[2].e = "FailedToExportFunctionAbi"
    /\ builder.instructions = <<>>
    /\ result = Err(builder.errors[1])

\* C6: when no error is recorded, build returns the reservations, then the
\* body, then one End with the signers of this call; and when no End was handed
\* to add_instruction directly, the program holds no other End.
C6_ProgramShape ==
    (last.op = "build" /\ builder.errors = <<>>) =>
        /\ result
               = Ok(builder.reservations \o builder.instructions
                        \o <<End(last.signers)>>)
        /\ Len(result.v)
               = Len(builder.reservations) + Len(builder.instructions) + 1
        /\ Last(result.v) = End(last.signers)
        /\ "End" \notin raw =>
               \A i \in 1..(Len(result.v) - 1) : result.v[i].op # "End"

\* A program built with a signer from a builder holding reservations and
\* body instructions.
C6_Witness ==
    /\ Built
    /\ last.signers = <<KEY>>
    /\ Len(builder.reservations) >= 2
    /\ Len(builder.instructions) >= 2
    /\ "End" \notin raw

\* C7: build does not change the builder, and a build right after a build
\* with the same signers returns the same result.
C7_BuildKeepsBuilder ==
    [][ /\ last'.op = "build" => builder' = builder
        /\ (last.op = "build" /\ last'.op = "build"
                /\ last'.signers = last.signers) => result' = result ]_vars

\* After a build that returned a program the builder still holds its
\* reservations, its body and its counters.
C7_Witness ==
    /\ Built
    /\ Len(builder.reservations) >= 1
    /\ Len(builder.instructions) >= 2
    /\ builder.allocator.bucket_counter >= 1
    /\ Len(result.v) = Len(builder.reservations) + Len(builder.instructions) + 1

(***************************************************************************)
(* C8 - C10: failing calls.                                                *)
(***************************************************************************)
\* C8 as stated: a call_function / call_method that fails leaves reservations
\* and body as they were before the call.
C8_Original ==
    (last.op \in CallOps /\ Len(builder.errors) > last.pre.errors) =>
        /\ Len(builder.reservations) = last.pre.reservations
        /\ Len(builder.instructions) = last.pre.instructions

\* C8 amended: a call_function / call_method that fails appends exactly one
\* error and no call instruction.  Reservations grow by one declaration for
\* each bucket / bucket-ref parameter before the failing parameter, and the
\* body only by the withdraw and fill instructions of those parameters; when
\* there is none (also for an export failure or an unknown member), both are
\* exactly what they were before the call.
C8_FailedCall ==
    [][ (last'.op \in CallOps /\ Len(builder'.errors) > Len(builder.errors)) =>
            /\ builder'.errors = Append(builder.errors, Last(builder'.errors))
            /\ IsPrefix(builder.reservations, builder'.reservations)
            /\ IsPrefix(builder.instructions, builder'.instructions)
            /\ Len(builder'.reservations) - Len(builder.reservations)
                   = Cardinality(ResourceParamsBefore(last', Last(builder'.errors)))
            /\ \A i \in (Len(builder.instructions) + 1)..Len(builder'.instructions) :
                   IsBindingInstruction(builder'.instructions[i], AccountOf(last'))
            /\ ResourceParamsBefore(last', Last(builder'.errors)) = {} =>
                   /\ builder'.reservations = builder.reservations
                   /\ builder'.instructions = builder.instructions ]_vars

\* A call that failed at its second parameter after its first, a bucket, was
\* withdrawn, declared and filled.
C8_Witness ==
    /\ last.op = "call_function"
    /\ Len(builder.errors) = last.pre.errors + 1
    /\ Last(builder.errors).e = "FailedToBuildArgs"
    /\ Last(builder.errors).cause.i = 1
    /\ Len(builder.reservations) = last.pre.reservations + 1
    /\ Len(builder.instructions) = last.pre.instructions + 2

\* C9: once an error is recorded every call still completes and keeps what
\* is there: errors, reservations and body before the call are prefixes of
\* those after it, the counters do not decrease, and a mutator returns the
\* builder.
C9_AppendOnly ==
    [][ builder.errors # <<>> =>
            /\ IsPrefix(builder.errors, builder'.errors)
            /\ IsPrefix(builder.reservations, builder'.reservations)
            /\ IsPrefix(builder.instructions, builder'.instructions)
            /\ builder'.allocator.bucket_counter >= builder.allocator.bucket_counter
            /\ builder'.allocator.bucket_ref_counter
                   >= builder.allocator.bucket_ref_counter
            /\ last'.op # "build" => result' = Self ]_vars

\* After an error, a second failing call and then a call that reserved an
\* id and appended to the body.
C9_Witness ==
    /\ last.op \in CallOps
    /\ last.pre.errors = 2
    /\ Len(builder.errors) = 2
    /\ builder.errors[1] # builder.errors[2]
    /\ Len(builder.reservations) > last.pre.reservations
    /\ Len(builder.instructions) > last.pre.instructions

\* C10: a call that supplies k raw arguments to a callee of n > k parameters,
\* the first k of which coerce, records
\* FailedToBuildArgs(MissingArgument(k, type of parameter k)) and appends no
\* call instruction.
C10_MissingArgument ==
    (/\ last.op \in CallOps
     /\ CalleeOf(last).ok
     /\ Len(ArgsOf(last)) < Len(CalleeOf(last).v.inputs)
     /\ \A i \in 1..Len(ArgsOf(last)) :
            Coerces(CalleeOf(last).v.inputs[i], ArgsOf(last)[i]))
    => /\ Len(builder.errors) = last.pre.errors + 1
       /\ Last(builder.errors)
              = FailedToBuildArgs(
                    MissingArgument(Len(ArgsOf(last)),
                        CalleeOf(last).v.inputs[Len(ArgsOf(last)) + 1]))
       /\ \A i \in 1..Len(AppendedSince(last.pre)) :
              IsBindingInstruction(AppendedSince(last.pre)[i], AccountOf(last))

\* buy(Decimal, Bucket) called with the one argument "10".
C10_Witness ==
    /\ last.op = "call_function"
    /\ last.call.function = "buy"
    /\ last.call.args = <<Text10>>
    /\ Last(builder.errors)
           = FailedToBuildArgs(MissingArgument(1, Custom(SCRYPTO_NAME_BUCKET)))

(***************************************************************************)
(* C11, C12: resource binding of a call.                                   *)
(***************************************************************************)
\* The declared parameter types of a recorded call whose callee was found.
TypesOf(l) == CalleeOf(l).v.inputs

\* Whether parameter i (from 1) of a recorded call coerces.
ParamCoerces(l, i) ==
    i <= Len(ArgsOf(l)) /\ Coerces(TypesOf(l)[i], ArgsOf(l)[i])

\* How many leading parameters of a recorded call coerce: all of them, or
\* those before the first one that does not.
Processed(l) ==
    Cardinality({i \in 1..Len(TypesOf(l)) : \A j \in 1..i : ParamCoerces(l, j)})

IsBucketType(t) ==
    t.kind = "Custom" /\ t.name \in {SCRYPTO_NAME_BID, SCRYPTO_NAME_BUCKET}

\* The bucket (bucket-ref, resource) parameters a recorded call processed.
BucketParams(l) == {i \in 1..Processed(l) : IsBucketType(TypesOf(l)[i])}

ResourceParams(l) == {i \in 1..Processed(l) : IsResourceType(TypesOf(l)[i])}

\* The resource amount the text of parameter i parses to.
AmountOfParam(l, i) == ResourceAmount_from_str(ArgsOf(l)[i]).v

\* The declarations the last call appended to the reservations.
ReservedSince(pre) ==
    SubSeq(builder.reservations, pre.reservations + 1, Len(builder.reservations))

IsCallInstruction(inst) == inst.op \in {"CallFunction", "CallMethod"}

\* C11: after a call without account, each bucket parameter that was
\* processed has exactly one DeclareTempBucket in the reservations the call
\* appended and exactly one TakeFromContext of its parsed amount and address
\* into a fresh id in the body the call appended; the call appended no
\* withdraw; and when the call succeeded its call instruction comes last and
\* carries that id at the parameter's position.
C11_TakeWithoutAccount ==
    (last.op \in CallOps /\ CalleeOf(last).ok /\ AccountOf(last) = None) =>
        /\ Cardinality({p \in 1..Len(ReservedSince(last.pre)) :
               ReservedSince(last.pre)[p] = DeclareTempBucket})
               = Cardinality(BucketParams(last))
        /\ Cardinality({p \in 1..Len(AppendedSince(last.pre)) :
               AppendedSince(last.pre)[p].op = "TakeFromContext"})
               = Cardinality(BucketParams(last))
        /\ \A p \in 1..Len(AppendedSince(last.pre)) :
               \/ AppendedSince(last.pre)[p].op
                      \in {"TakeFromContext", "BorrowFromContext"}
               \/ /\ p = Len(AppendedSince(last.pre))
                  /\ Processed(last) = Len(TypesOf(last))
                  /\ IsCallInstruction(AppendedSince(last.pre)[p])
        /\ \A i \in BucketParams(last) :
               LET id == last.pre.bid
                             + Cardinality({j \in BucketParams(last) : j < i})
                   app == AppendedSince(last.pre)
               IN  /\ \E p \in 1..Len(app) :
                          /\ app[p] = TakeFromContext(
                                          amount(AmountOfParam(last, i)),
                                          resource_address(AmountOfParam(last, i)),
                                          id)
                          /\ \A q \in 1..Len(app) :
                                 (app[q].op = "TakeFromContext" /\ app[q].to = id)
                                     => q = p
                          /\ Processed(last) = Len(TypesOf(last)) =>
                                 /\ p < Len(app)
                                 /\ IsCallInstruction(app[Len(app)])
                                 /\ app[Len(app)].args[i]
                                        = SmartValue_from("Bid", id)

\* buy(Decimal, Bucket) with ["10", "5,30"] and no account on a fresh builder.
C11_Witness ==
    /\ last.op = "call_function"
    /\ last.call.account = None
    /\ builder.reservations = <<DeclareTempBucket>>
    /\ builder.instructions
           = << TakeFromContext(Decimal_from(5), TOKEN, 0),
                CallFunction(PACKAGE, "Shop", "buy",
                    << SmartValue_from("Decimal", Decimal_from(10)),
                       SmartValue_from("Bid", 0) >>) >>

\* The withdraw instruction of a resource amount on an account.
WithdrawOf(amt, account) ==
    withdraw_from_account(new, amt, account).instructions[1]

\* The fill instruction of a resource amount into an id of a kind.
FillOf(kind, amt, id) ==
    IF kind = "Bid"
    THEN TakeFromContext(amount(amt), resource_address(amt), id)
    ELSE BorrowFromContext(amount(amt), resource_address(amt), id)

\* The reservation a recorded call made for its resource parameter i.
HandedFor(l, i) ==
    builder.handed[l.pre.reservations
                       + Cardinality({j \in ResourceParams(l) : j <= i})]

\* C12: after a call with an account, each bucket / bucket-ref parameter
\* that was processed has one reservation of its kind made by this call; the
\* withdraw of its parsed amount on the account was the last instruction of
\* the body when the id was reserved, so it was emitted by this call before
\* the declaration, and the fill of that id follows it immediately in the
\* body.  The call emitted one withdraw for each such parameter.
C12_WithdrawBeforeFill ==
    (last.op \in CallOps /\ CalleeOf(last).ok /\ AccountOf(last) # None) =>
        /\ Len(ReservedSince(last.pre)) = Cardinality(ResourceParams(last))
        /\ Cardinality({p \in 1..Len(AppendedSince(last.pre)) :
               /\ AppendedSince(last.pre)[p].op = "CallMethod"
               /\ AppendedSince(last.pre)[p].method \in {"withdraw", "withdraw_nfts"}})
               = Cardinality(ResourceParams(last))
        /\ \A i \in ResourceParams(last) :
               /\ HandedFor(last, i).kind
                      = (IF IsBucketType(TypesOf(last)[i]) THEN "Bid" ELSE "Rid")
               /\ HandedFor(last, i).at > last.pre.reservations
               /\ HandedFor(last, i).body > last.pre.instructions
               /\ builder.instructions[HandedFor(last, i).body]
                      = WithdrawOf(AmountOfParam(last, i), AccountOf(last))
               /\ builder.instructions[HandedFor(last, i).body + 1]
                      = FillOf(HandedFor(last, i).kind, AmountOfParam(last, i),
                               HandedFor(last, i).id)

\* deposit(BucketRef, Bucket) with ["1,31", "5,30"] and an account: withdraw,
\* borrow, withdraw, take, call.
C12_Witness ==
    /\ last.op = "call_method"
    /\ last.mcall.account = ACCOUNT
    /\ last.pre.instructions >= 1
    /\ AppendedSince(last.pre)
           = << CallMethod(ACCOUNT, "withdraw",
                    << SmartValue_from("Decimal", Decimal_from(1)),
                       SmartValue_from("Address", BADGE) >>),
                BorrowFromContext(Decimal_from(1), BADGE, last.pre.rid),
                CallMethod(ACCOUNT, "withdraw",
                    << SmartValue_from("Decimal", Decimal_from(5)),
                       SmartValue_from("Address", TOKEN) >>),
                TakeFromContext(Decimal_from(5), TOKEN, last.pre.bid),
                CallMethod(COMPONENT, "deposit",
                    << SmartValue_from("Rid", last.pre.rid),
                       SmartValue_from("Bid", last.pre.bid) >>) >>

(***************************************************************************)
(* C13, C14: the resource amount grammar.                                  *)
(***************************************************************************)
\* The tokens of a text.
TokensOf(s) == split(trim(s), ",")

\* Whether a token is '#' followed by an unsigned 128-bit integer.
IsNftId(token) ==
    starts_with(token, "#") /\ Int_from_str("U128", Tail(token)).ok

\* The decision table of the grammar.
Classify(t) ==
    IF Len(t) < 2 THEN Err("MissingResourceAddress")
    ELSE IF ~Address_from_str(Last(t)).ok THEN Err("InvalidResourceAddress")
    ELSE IF starts_with(t[1], "#")
    THEN IF \E i \in 1..(Len(t) - 1) : ~IsNftId(t[i])
         THEN Err("InvalidNftId")
         ELSE Ok(NonFungible(
                     {Int_from_str("U128", Tail(t[i])).v : i \in 1..(Len(t) - 1)},
                     Address_from_str(Last(t)).v))
    ELSE IF Len(t) # 2 \/ ~Decimal_from_str(t[1]).ok THEN Err("InvalidAmount")
    ELSE Ok(Fungible(Decimal_from_str(t[1]).v, Address_from_str(Last(t)).v))

\* C13: ResourceAmount::from_str classifies every text by the decision
\* table, in its priority: too few tokens, then the address, then ids or
\* amount.
C13_DecisionTable ==
    last.op \in {"from_str", "round_trip"} =>
        /\ result = Classify(TokensOf(last.s))
        /\ last.s = TextAbc => result = Err("MissingResourceAddress")
        /\ last.s = TextBadAddress => result = Err("InvalidResourceAddress")
        /\ last.s = TextNftNoHash => result = Err("InvalidNftId")
        /\ last.s = TextFourTokens => result = Err("InvalidAmount")
        /\ last.s \in PaddedTexts => result = Ok(Fungible(Decimal_from(5), TOKEN))
        /\ last.s \in Paddings => result = Err("MissingResourceAddress")
        /\ last.s \in {TextInnerBlank, TextInnerTab} \cup NotPaddedTexts
               => ~result.ok

\* A text whose address and first id are both wrong: the address decides.
C13_Witness ==
    /\ last.op = "from_str"
    /\ last.s = <<"#", ",", "x">>
    /\ result = Err("InvalidResourceAddress")

\* C14: a fungible amount and address written as "A,R" parse to
\* Fungible{A, R}; a non-empty list of distinct ids and an address written
\* as "#i1,...,#ik,R", in any order, parse to NonFungible{{i1..ik}, R}.
C14_RoundTrip ==
    last.op = "round_trip" => result = Ok(last.value)

\* "#10,#0,#2,31" parsed to the ids {0, 2, 10} of the badge.
C14_Witness ==
    /\ last.op = "round_trip"
    /\ last.s = <<"#", "1", "0", ",", "#", "0", ",", "#", "2", ",", "3", "1">>
    /\ result = Ok(NonFungible({0, 2, 10}, BADGE))

(***************************************************************************)
(* C15, C16: the built-in helpers.                                         *)
(***************************************************************************)
HelperOps ==
    {"publish_package", "new_token_mutable", "new_token_fixed",
     "new_badge_mutable", "new_badge_fixed", "mint", "new_account",
     "new_account_with_resource", "withdraw_from_account"}

\* C15: a helper never asks the ABI provider and never records an error: it
\* returns the builder, appends at least one instruction to the body, and
\* leaves the errors as they were, also on a builder that holds errors and
\* for targets the provider cannot export.
C15_HelpersNeverFail ==
    [][ last'.op \in HelperOps =>
            /\ builder'.queried = builder.queried
            /\ builder'.errors = builder.errors
            /\ result' = Self
            /\ IsPrefix(builder.reservations, builder'.reservations)
            /\ IsPrefix(builder.instructions, builder'.instructions)
            /\ Len(builder'.instructions) > Len(builder.instructions) ]_vars

\* new_account right after a call the provider failed: the account package
\* cannot be exported either, and still only that one error is recorded.
C15_Witness ==
    /\ last.op = "new_account"
    /\ builder.queried = 1
    /\ Len(builder.errors) = 1
    /\ builder.errors[1].e = "FailedToExportFunctionAbi"
    /\ export_abi(ACCOUNT_PACKAGE, "Account").ok = FALSE
    /\ Last(builder.instructions).function = "new"

\* The resource-creation instructions of a body.
IsNewResource(inst) ==
    /\ inst.op = "CallFunction"
    /\ inst.package_address = SYSTEM_PACKAGE
    /\ inst.function = "new_resource"

\* The two modes of a resource-creation instruction.
IsFixedMode(inst) ==
    /\ inst.args[6][2] # <<>>
    /\ inst.args[5][2] = {}
    /\ inst.args[3][2] = {}

IsMutableMode(inst, badge) ==
    /\ inst.args[6][2] = <<>>
    /\ inst.args[3][2] = MINTABLE \cup BURNABLE
    /\ inst.args[5][2] = {<<badge, MAY_MINT \cup MAY_BURN>>}

\* C16: every resource-creation instruction of the body is in exactly one
\* mode: an initial supply with no flags and no authority, or no initial
\* supply with flags mintable|burnable and may-mint|may-burn granted to one
\* badge only; the fixed helpers emit the first with the supply given, the
\* mutable helpers the second with the badge given.
C16_TwoModes ==
    /\ \A i \in 1..Len(builder.instructions) :
           IsNewResource(builder.instructions[i]) =>
               /\ \/ IsFixedMode(builder.instructions[i])
                  \/ \E badge \in {TOKEN, BADGE} :
                         IsMutableMode(builder.instructions[i], badge)
               /\ ~(builder.instructions[i].args[6][2] # <<>>
                        /\ builder.instructions[i].args[5][2] # {})
               /\ ~(builder.instructions[i].args[6][2] = <<>>
                        /\ builder.instructions[i].args[5][2] = {})
    /\ last.op \in {"new_token_fixed", "new_badge_fixed"} =>
           /\ IsNewResource(Last(builder.instructions))
           /\ IsFixedMode(Last(builder.instructions))
           /\ Last(builder.instructions).args[6][2]
                  = <<NewSupply_Fungible(last.supply)>>
    /\ last.op \in {"new_token_mutable", "new_badge_mutable"} =>
           /\ IsNewResource(Last(builder.instructions))
           /\ IsMutableMode(Last(builder.instructions), last.badge)

\* A body holding a fixed badge, a mutable token and a fixed token.
C16_Witness ==
    /\ Len(builder.instructions) = 3
    /\ IsNewResource(builder.instructions[1])
    /\ IsFixedMode(builder.instructions[1])
    /\ builder.instructions[1].args[1][2] = ResourceType_Fungible(0)
    /\ IsNewResource(builder.instructions[2])
    /\ IsMutableMode(builder.instructions[2], BADGE)
    /\ IsNewResource(builder.instructions[3])
    /\ IsFixedMode(builder.instructions[3])
    /\ builder.instructions[3].args[1][2] = ResourceType_Fungible(18)

(***************************************************************************)
(* C17: determinism.                                                       *)
(***************************************************************************)
\* The call now made on a builder is the call made on that builder just
\* before, and that one failed.
FailingCallAgain(log, entry) ==
    /\ log # <<>>
    /\ Last(log) = entry
    /\ entry.op \in CallOps
    /\ (~CalleeOf(entry).ok \/ Processed(entry) < Len(TypesOf(entry)))

\* The kind of id a resource parameter reserves.
KindOfParam(l, i) == IF IsBucketType(TypesOf(l)[i]) THEN "Bid" ELSE "Rid"

\* The id the i-th parameter of a recorded call was given: the counter of
\* its kind before the call plus the processed parameters of that kind
\* before it.
IdOfParam(l, i) ==
    (IF KindOfParam(l, i) = "Bid" THEN l.pre.bid ELSE l.pre.rid)
        + Cardinality({j \in ResourceParams(l) :
                           j < i /\ KindOfParam(l, j) = KindOfParam(l, i)})

RECURSIVE EmittedFrom(_, _)
\* What binding the processed parameters i.. of a recorded call appends to
\* the body: for each resource parameter the withdraw, when there is an
\* account, and the fill.
EmittedFrom(l, i) ==
    IF i > Processed(l) THEN <<>>
    ELSE IF ~IsResourceType(TypesOf(l)[i]) THEN EmittedFrom(l, i + 1)
    ELSE (IF AccountOf(l) # None
          THEN <<WithdrawOf(AmountOfParam(l, i), AccountOf(l))>> ELSE <<>>)
             \o <<FillOf(KindOfParam(l, i), AmountOfParam(l, i), IdOfParam(l, i))>>
             \o EmittedFrom(l, i + 1)

RECURSIVE DeclaredFrom(_, _)
\* The declarations the processed parameters i.. append to the reservations.
DeclaredFrom(l, i) ==
    IF i > Processed(l) THEN <<>>
    ELSE IF ~IsResourceType(TypesOf(l)[i]) THEN DeclaredFrom(l, i + 1)
    ELSE <<DeclarationOf(KindOfParam(l, i))>> \o DeclaredFrom(l, i + 1)

\* A recorded call whose callee was found and whose coercion fails.
CoercionFails(l) ==
    l.op \in CallOps /\ CalleeOf(l).ok /\ Processed(l) < Len(TypesOf(l))

\* C18: when coercion fails at parameter k (from 0), the call has appended
\* exactly the withdraws, declarations and fills of the resource parameters
\* before k and nothing for k or later parameters, no call instruction, and
\* one error naming k; the ids of those parameters stay consumed, so the next
\* reservation of a kind gets the next id.
C18_NoRollback ==
    /\ [](CoercionFails(last) =>
            /\ AppendedSince(last.pre) = EmittedFrom(last, 1)
            /\ ReservedSince(last.pre) = DeclaredFrom(last, 1)
            /\ builder.allocator.bucket_counter
                   = last.pre.bid + Cardinality(BucketParams(last))
            /\ builder.allocator.bucket_ref_counter
                   = last.pre.rid
                         + Cardinality(ResourceParams(last) \ BucketParams(last))
            /\ Len(builder.errors) = last.pre.errors + 1
            /\ Last(builder.errors).e = "FailedToBuildArgs"
            /\ Last(builder.errors).cause.i = Processed(last))
    /\ [][ (CoercionFails(last) /\ Len(builder'.handed) > Len(builder.handed)) =>
               builder'.handed[Len(builder.handed) + 1].id
                   = (IF builder'.handed[Len(builder.handed) + 1].kind = "Bid"
                      THEN last.pre.bid + Cardinality(BucketParams(last))
                      ELSE last.pre.rid
                               + Cardinality(ResourceParams(last)
                                                 \ BucketParams(last))) ]_vars

\* swap(Bucket, Decimal) with ["5,30", "x"] and an account failed at
\* parameter 1 on a fresh builder; the bucket declared next got id 1.
C18_Witness ==
    /\ last.op = "declare_bucket"
    /\ Len(builder.errors) = 1
    /\ builder.errors[1].e = "FailedToBuildArgs"
    /\ builder.errors[1].cause.e = "FailedToParse"
    /\ builder.errors[1].cause.i = 1
    /\ builder.reservations = <<DeclareTempBucket, DeclareTempBucket>>
    /\ builder.handed[2].id = 1
    /\ Len(builder.instructions) >= 2
    /\ builder.instructions[1].op = "CallMethod"
    /\ builder.instructions[2] = TakeFromContext(Decimal_from(5), TOKEN, 0)
    /\ \A i \in 1..Len(builder.instructions) :
           builder.instructions[i].op # "CallFunction"

\* The error of a call whose ABI export or member lookup fails.
LookupError(l) ==
    IF l.op = "call_function"
    THEN IF ~export_abi(l.call.package_address, l.call.blueprint_name).ok
         THEN FailedToExportFunctionAbi(l.call.package_address,
                                        l.call.blueprint_name, l.call.function)
         ELSE FunctionNotFound(l.call.function)
    ELSE IF ~export_abi_component(l.mcall.component_address).ok
         THEN FailedToExportMethodAbi(l.mcall.component_address, l.mcall.method)
         ELSE MethodNotFound(l.mcall.method)

\* C19: a call whose export fails records FailedToExportFunctionAbi /
\* FailedToExportMethodAbi, also when the member is unknown and the arguments
\* do not coerce; a call whose export succeeds and whose member is unknown
\* records FunctionNotFound / MethodNotFound; either way that one error is
\* appended, the provider was asked once, and reservations, body and both
\* counters are as before the call.
C19_CheckOrder ==
    [][ (last'.op \in CallOps /\ ~CalleeOf(last').ok) =>
            /\ builder'.errors = Append(builder.errors, LookupError(last'))
            /\ builder'.reservations = builder.reservations
            /\ builder'.instructions = builder.instructions
            /\ builder'.allocator = builder.allocator
            /\ builder'.queried = builder.queried + 1 ]_vars

\* After a body instruction and a reservation, call_method on a component
\* that cannot be exported, with resource arguments and an account: nothing
\* was withdrawn.
C19_Witness ==
    /\ last.op = "call_method"
    /\ last.mcall.component_address = ACCOUNT
    /\ last.mcall.account = ACCOUNT
    /\ Len(last.mcall.args) = 2
    /\ last.pre.instructions >= 1
    /\ last.pre.reservations >= 1
    /\ Len(builder.instructions) = last.pre.instructions
    /\ Last(builder.errors) = FailedToExportMethodAbi(ACCOUNT, "deposit")

\* Whether a recorded call fails, and the error it fails with.
CallFails(l) ==
    l.op \in CallOps /\ (~CalleeOf(l).ok \/ Processed(l) < Len(TypesOf(l)))

ErrorOfCall(l) ==
    IF ~CalleeOf(l).ok THEN LookupError(l)
    ELSE FailedToBuildArgs(
             prepare_arg(new, Processed(l), TypesOf(l)[Processed(l) + 1],
                         ArgsOf(l), None).ret.err)

\* C20: the errors sequence is empty at first; a failing call_function /
\* call_method appends its one error at the end, and a successful call and
\* every other operation, build too, leave the sequence as it is.
C20_ErrorsRecordFailures ==
    /\ (last.op = "new" => builder.errors = <<>>)
    /\ [][ /\ CallFails(last') =>
                  builder'.errors = Append(builder.errors, ErrorOfCall(last'))
           /\ ~CallFails(last') => builder'.errors = builder.errors ]_vars

\* A failing call, a successful call and another failing call: two errors,
\* in the order of the calls.
C20_Witness ==
    /\ nops = 3
    /\ last.op = "call_method"
    /\ Len(builder.errors) = 2
    /\ builder.errors[1].e = "FunctionNotFound"
    /\ builder.errors[2].e = "FailedToBuildArgs"
    /\ \E i \in 1..last.pre.instructions :
           builder.instructions[i].op = "CallFunction"

(***************************************************************************)
(* C21: the two streams.                                                   *)
(***************************************************************************)
\* C21 as stated: whatever public calls were made, the reservations hold
\* declarations only and the body holds no declaration.
C21_Original ==
    /\ \A i \in 1..Len(builder.reservations) :
           IsDeclaration(builder.reservations[i])
    /\ \A j \in 1..Len(builder.instructions) :
           ~IsDeclaration(builder.instructions[j])

\* C21 amended: the reservations hold declarations only, one for each id
\* handed out and of its kind; and the body holds no declaration as long as
\* none was handed to add_instruction directly.
C21_TwoStreams ==
    /\ \A i \in 1..Len(builder.reservations) :
           IsDeclaration(builder.reservations[i])
    /\ builder.reservations
           = [k \in 1..Len(builder.handed) |->
                  DeclarationOf(builder.handed[k].kind)]
    /\ raw \cap {"DeclareTempBucket", "DeclareTempBucketRef"} = {} =>
           \A j \in 1..Len(builder.instructions) :
               ~IsDeclaration(builder.instructions[j])

\* After a call that failed half way, a mint and a direct take_from_context:
\* declarations of both kinds in the reservations, fills, a withdraw and a
\* call in the body, and no declaration handed to add_instruction.
C21_Witness ==
    /\ raw \cap {"DeclareTempBucket", "DeclareTempBucketRef"} = {}
    /\ builder.errors # <<>>
    /\ builder.reservations = <<DeclareTempBucket, DeclareTempBucketRef>>
    /\ Len(builder.instructions) = 5
    /\ builder.instructions[1].op = "CallMethod"
    /\ builder.instructions[2].op = "TakeFromContext"
    /\ builder.instructions[3].op = "BorrowFromContext"
    /\ builder.instructions[4].op = "CallFunction"
    /\ last.op = "take_from_context"

(***************************************************************************)
(* C22 - C24: what a successful call emits.                                *)
(***************************************************************************)
\* The last operation was a call_function / call_method that recorded no
\* error.
Succeeded == last.op \in CallOps /\ Len(builder.errors) = last.pre.errors

\* The declared parameters of the callee that are buckets or bucket
\* references.
DeclaredResourceParams(l) ==
    {i \in 1..Len(TypesOf(l)) : IsResourceType(TypesOf(l)[i])}

IsWithdraw(inst) ==
    inst.op = "CallMethod" /\ inst.method \in {"withdraw", "withdraw_nfts"}

\* The call instruction of a recorded call, with the arguments given.
CallInstructionOf(l, args) ==
    IF l.op = "call_function"
    THEN CallFunction(l.call.package_address, l.call.blueprint_name,
                      l.call.function, args)
    ELSE CallMethod(l.mcall.component_address, l.mcall.method, args)

\* C22: a successful call whose callee declares no bucket or bucket-ref
\* parameter appends its call instruction and nothing else, with or without
\* an account; a successful call appends one declaration for each bucket or
\* bucket-ref parameter, and one withdraw on the account for each of them
\* when there is an account and none when there is not.
C22_DrivenByResourceParams ==
    Succeeded =>
        /\ DeclaredResourceParams(last) = {} =>
               /\ Len(AppendedSince(last.pre)) = 1
               /\ AppendedSince(last.pre)[1]
                      = CallInstructionOf(last, AppendedSince(last.pre)[1].args)
               /\ Len(AppendedSince(last.pre)[1].args) = Len(TypesOf(last))
               /\ ReservedSince(last.pre) = <<>>
               /\ builder.allocator.bucket_counter = last.pre.bid
               /\ builder.allocator.bucket_ref_counter = last.pre.rid
        /\ Len(ReservedSince(last.pre))
               = Cardinality(DeclaredResourceParams(last))
        /\ Cardinality({p \in 1..Len(AppendedSince(last.pre)) :
               /\ p < Len(AppendedSince(last.pre))
               /\ IsWithdraw(AppendedSince(last.pre)[p])})
               = (IF AccountOf(last) # None
                  THEN Cardinality(DeclaredResourceParams(last)) ELSE 0)
        /\ \A p \in 1..(Len(AppendedSince(last.pre)) - 1) :
               IsWithdraw(AppendedSince(last.pre)[p]) =>
                   AppendedSince(last.pre)[p].component_address = AccountOf(last)

\* set_rate(Decimal) with ["10"] and an account, on a builder that holds a
\* reservation: the call instruction alone was appended.
C22_Witness ==
    /\ last.op = "call_method"
    /\ last.mcall.account = ACCOUNT
    /\ last.pre.reservations >= 1
    /\ Len(builder.reservations) = last.pre.reservations
    /\ AppendedSince(last.pre)
           = << CallMethod(COMPONENT, "set_rate",
                    << SmartValue_from("Decimal", Decimal_from(10)) >>) >>

\* The value parameter i (from 1) of a recorded call is coerced to: a
\* reference to the id reserved for it, or the parsed text.
ValueOfParam(l, i) ==
    IF IsResourceType(TypesOf(l)[i])
    THEN SmartValue_from(KindOfParam(l, i), IdOfParam(l, i))
    ELSE prepare_arg(new, i - 1, TypesOf(l)[i], ArgsOf(l), None).ret.v

\* C23: after a successful call, the declarations it appended are those of
\* its bucket / bucket-ref parameters in parameter order; the body it
\* appended is, in parameter order, the withdraw (with an account) and the
\* fill of each such parameter, and then the one call instruction, whose
\* arguments are the values of the declared parameters in declared order.
\* The ids of a kind grow with the position, starting at the counter of the
\* kind before the call, and of two such parameters the earlier one has its
\* declaration and its fill before those of the later one.
C23_PositionalOrder ==
    Succeeded =>
        /\ ReservedSince(last.pre) = DeclaredFrom(last, 1)
        /\ AppendedSince(last.pre)
               = EmittedFrom(last, 1)
                     \o << CallInstructionOf(last,
                               [i \in 1..Len(TypesOf(last)) |->
                                    ValueOfParam(last, i)]) >>
        /\ \A p \in 1..(Len(AppendedSince(last.pre)) - 1) :
               AppendedSince(last.pre)[p].op
                   \in {"TakeFromContext", "BorrowFromContext", "CallMethod"}
        /\ \A i \in DeclaredResourceParams(last) :
               /\ HandedFor(last, i).kind = KindOfParam(last, i)
               /\ HandedFor(last, i).id = IdOfParam(last, i)
               /\ builder.instructions[HandedFor(last, i).body + 1]
                      = FillOf(KindOfParam(last, i), AmountOfParam(last, i),
                               HandedFor(last, i).id)
               /\ HandedFor(last, i).body + 1 < Len(builder.instructions)
               /\ Last(builder.instructions).args[i]
                      = SmartValue_from(HandedFor(last, i).kind,
                                        HandedFor(last, i).id)
        /\ \A i, j \in DeclaredResourceParams(last) :
               i < j =>
                   /\ HandedFor(last, i).at < HandedFor(last, j).at
                   /\ HandedFor(last, i).body < HandedFor(last, j).body
                   /\ KindOfParam(last, i) = KindOfParam(last, j) =>
                          HandedFor(last, i).id < HandedFor(last, j).id
        /\ (last.pre.bid = 0 /\ last.pre.rid = 0) =>
               \A i \in DeclaredResourceParams(last) :
                   (\A j \in DeclaredResourceParams(last) :
                        j < i => KindOfParam(last, j) # KindOfParam(last, i))
                       => HandedFor(last, i).id = 0

\* trade(BucketRef, U8, Bid, Rid, String) with ["1,31", "10", "#1,#1,30",
\* "#1,#2,30", "x"] and an account on a fresh builder.
C23_Witness ==
    /\ last.op = "call_function"
    /\ last.call.function = "trade"
    /\ last.call.account = ACCOUNT
    /\ builder.reservations
           = <<DeclareTempBucketRef, DeclareTempBucket, DeclareTempBucketRef>>
    /\ Len(builder.instructions) = 7
    /\ builder.instructions[2] = BorrowFromContext(Decimal_from(1), BADGE, 0)
    /\ builder.instructions[4] = TakeFromContext(Decimal_from(1), TOKEN, 0)
    /\ builder.instructions[6] = BorrowFromContext(Decimal_from(2), TOKEN, 1)
    /\ builder.instructions[7]
           = CallFunction(PACKAGE, "Shop", "trade",
                 << SmartValue_from("Rid", 0), SmartValue_from("U8", 10),
                    SmartValue_from("Bid", 0), SmartValue_from("Rid", 1),
                    SmartValue_from("String", TextX) >>)

\* What the decision table of the grammar makes of the text of parameter i.
ClassifiedParam(l, i) == Classify(TokensOf(ArgsOf(l)[i])).v

\* The fill instruction in the body for the id reserved for parameter i.
FillInBody(l, i) == builder.instructions[HandedFor(l, i).body + 1]

\* C24: amount() is the decimal for a fungible amount and the number of
\* distinct ids for non-fungible ids, so that "#1,#1,R" has amount 1; the
\* TakeFromContext / BorrowFromContext emitted for a bucket / bucket-ref
\* parameter carries that amount, the resource address and the id, and no
\* ids.
C24_AmountIsCardinality ==
    (last.op \in CallOps /\ CalleeOf(last).ok) =>
        \A i \in ResourceParams(last) :
            /\ ClassifiedParam(last, i).variant = "Fungible" =>
                   /\ amount(ClassifiedParam(last, i))
                          = ClassifiedParam(last, i).amount
                   /\ FillInBody(last, i).amount
                          = Decimal_from_str(TokensOf(ArgsOf(last)[i])[1]).v
            /\ ClassifiedParam(last, i).variant = "NonFungible" =>
                   /\ amount(ClassifiedParam(last, i))
                          = Decimal_from(
                                Cardinality(ClassifiedParam(last, i).ids))
                   /\ FillInBody(last, i).amount
                          = Decimal_from(
                                Cardinality(ClassifiedParam(last, i).ids))
            /\ ArgsOf(last)[i] = TextSameNft =>
                   /\ ClassifiedParam(last, i) = NonFungible({1}, TOKEN)
                   /\ FillInBody(last, i).amount = Decimal_from(1)
            /\ ArgsOf(last)[i] = TextNfts =>
                   FillInBody(last, i).amount = Decimal_from(2)
            /\ FillInBody(last, i).op
                   = (IF IsBucketType(TypesOf(last)[i])
                      THEN "TakeFromContext" ELSE "BorrowFromContext")
            /\ FillInBody(last, i).resource_address
                   = Address_from_str(Last(TokensOf(ArgsOf(last)[i]))).v
            /\ FillInBody(last, i).to = HandedFor(last, i).id
            /\ DOMAIN FillInBody(last, i)
                   = {"op", "amount", "resource_address", "to"}

\* A bucket parameter given "#1,#1,30" without an account, after a mint: a
\* TakeFromContext of amount 1 and the call.
C24_Witness ==
    /\ last.op = "call_function"
    /\ last.call.args = <<TextSameNft>>
    /\ last.call.account = None
    /\ last.pre.instructions = 2
    /\ AppendedSince(last.pre)
           = << TakeFromContext(Decimal_from(1), TOKEN, 0),
                CallFunction(PACKAGE, "Probe", SCRYPTO_NAME_BUCKET,
                             << SmartValue_from("Bid", 0) >>) >>

(***************************************************************************)
(* C25, C26: the helpers that withdraw and reserve.                        *)
(***************************************************************************)
\* C25: withdraw_from_account appends one CallMethod on the account given
\* and changes nothing else of the builder: method "withdraw" with the
\* amount and the resource address for a fungible amount, method
\* "withdraw_nfts" with the set of ids and the resource address for
\* non-fungible ids.
C25_WithdrawFromAccount ==
    [][ last'.op = "withdraw_from_account" =>
            /\ builder'
                   = [builder EXCEPT !.instructions =
                          Append(@, Last(builder'.instructions))]
            /\ Len(builder'.instructions) = Len(builder.instructions) + 1
            /\ Last(builder'.instructions).op = "CallMethod"
            /\ Last(builder'.instructions).component_address = last'.account
            /\ last'.resource_spec.variant = "Fungible" =>
                   /\ Last(builder'.instructions).method = "withdraw"
                   /\ Last(builder'.instructions).args
                          = << SmartValue_from("Decimal",
                                               last'.resource_spec.amount),
                               SmartValue_from("Address",
                                   last'.resource_spec.resource_address) >>
            /\ last'.resource_spec.variant = "NonFungible" =>
                   /\ Last(builder'.instructions).method = "withdraw_nfts"
                   /\ Last(builder'.instructions).args
                          = << SmartValue_from("BTreeSet",
                                               last'.resource_spec.ids),
                               SmartValue_from("Address",
                                   last'.resource_spec.resource_address) >>
      ]_vars

\* The ids {1, 2} withdrawn from the account on a builder that holds a
\* reservation and an error.
C25_Witness ==
    /\ last.op = "withdraw_from_account"
    /\ last.resource_spec = NonFungible({1, 2}, TOKEN)
    /\ Len(builder.reservations) = 1
    /\ Len(builder.errors) = 1
    /\ Last(builder.instructions)
           = CallMethod(ACCOUNT, "withdraw_nfts",
                 << SmartValue_from("BTreeSet", {1, 2}),
                    SmartValue_from("Address", TOKEN) >>)

\* C26: mint reserves one bucket-reference id r: it appends
\* DeclareTempBucketRef to the reservations and, to the body,
\* BorrowFromContext{1, badge, r} and right after it the call of
\* System::mint with (amount, resource address, r).
\* new_account_with_resource reserves one bucket id b: it appends
\* DeclareTempBucket and, to the body, TakeFromContext{amount, resource
\* address, b} and right after it the call of Account::with_bucket with
\* (key, b).  Neither changes the other counter, the errors or anything
\* already in the two streams.
C26_ReservingHelpers ==
    [][ /\ last'.op = "mint" =>
               /\ Len(builder'.handed) = Len(builder.handed) + 1
               /\ Last(builder'.handed).kind = "Rid"
               /\ builder'.allocator.bucket_ref_counter
                      = builder.allocator.bucket_ref_counter + 1
               /\ builder'.allocator.bucket_counter
                      = builder.allocator.bucket_counter
               /\ builder'.reservations
                      = Append(builder.reservations, DeclareTempBucketRef)
               /\ builder'.instructions
                      = builder.instructions
                          \o << BorrowFromContext(Decimal_from(1),
                                    last'.mint_badge_address,
                                    Last(builder'.handed).id),
                                CallFunction(SYSTEM_PACKAGE, "System", "mint",
                                    << SmartValue_from("Decimal", last'.amount),
                                       SmartValue_from("Address",
                                                       last'.resource_address),
                                       SmartValue_from("Rid",
                                           Last(builder'.handed).id) >>) >>
               /\ builder'.errors = builder.errors
        /\ last'.op = "new_account_with_resource" =>
               /\ Len(builder'.handed) = Len(builder.handed) + 1
               /\ Last(builder'.handed).kind = "Bid"
               /\ builder'.allocator.bucket_counter
                      = builder.allocator.bucket_counter + 1
               /\ builder'.allocator.bucket_ref_counter
                      = builder.allocator.bucket_ref_counter
               /\ builder'.reservations
                      = Append(builder.reservations, DeclareTempBucket)
               /\ builder'.instructions
                      = builder.instructions
                          \o << TakeFromContext(last'.amount,
                                    last'.resource_address,
                                    Last(builder'.handed).id),
                                CallFunction(ACCOUNT_PACKAGE, "Account",
                                    "with_bucket",
                                    << SmartValue_from("Address", last'.key),
                                       SmartValue_from("Bid",
                                           Last(builder'.handed).id) >>) >>
               /\ builder'.errors = builder.errors ]_vars

\* mint of 1.5 of the badge resource under the token as badge, after a
\* reservation by the caller and a mint: it got bucket reference 1.
C26_Witness ==
    /\ last.op = "mint"
    /\ last.amount = Decimal(1, 1, <<"5">>)
    /\ last.mint_badge_address = TOKEN
    /\ Len(builder.reservations) = 3
    /\ Last(builder.handed).id = 1
    /\ builder.allocator.bucket_counter = 1
    /\ builder.instructions[Len(builder.instructions) - 1]
           = BorrowFromContext(Decimal_from(1), TOKEN, 1)
    /\ Last(builder.instructions).args
           = << SmartValue_from("Decimal", Decimal(1, 1, <<"5">>)),
                SmartValue_from("Address", BADGE),
                SmartValue_from("Rid", 1) >>

(***************************************************************************)
(* C27: a parameter that does not coerce.                                  *)
(***************************************************************************)
\* The kinds argument coercion has a grammar for.
IsSupportedType(t) ==
    \/ t.kind \in {"Bool", "I8", "I16", "I32", "I64", "I128", "U8", "U16",
                   "U32", "U64", "U128", "String"}
    \/ /\ t.kind = "Custom"
       /\ t.name \in {SCRYPTO_NAME_DECIMAL, SCRYPTO_NAME_BIG_DECIMAL,
                      SCRYPTO_NAME_ADDRESS, SCRYPTO_NAME_H256,
                      SCRYPTO_NAME_BID, SCRYPTO_NAME_BUCKET,
                      SCRYPTO_NAME_RID, SCRYPTO_NAME_BUCKET_REF}

\* Whether the grammar of a supported kind accepts a raw text.
GrammarAccepts(t, arg) ==
    CASE t.kind = "Bool" -> arg \in {TextTrue, <<"f", "a", "l", "s", "e">>}
      [] t.kind = "String" -> TRUE
      [] t.kind = "Custom" /\ t.name = SCRYPTO_NAME_DECIMAL ->
             Decimal_from_str(arg).ok
      [] t.kind = "Custom" /\ t.name = SCRYPTO_NAME_BIG_DECIMAL ->
             BigDecimal_from_str(arg).ok
      [] t.kind = "Custom" /\ t.name = SCRYPTO_NAME_ADDRESS ->
             Address_from_str(arg).ok
      [] t.kind = "Custom" /\ t.name = SCRYPTO_NAME_H256 -> H256_from_str(arg).ok
      [] IsResourceType(t) -> Classify(TokensOf(arg)).ok
      [] OTHER -> Int_from_str(t.kind, arg).ok

\* Parameter i (from 1) of a recorded call is reached and its raw argument
\* is there: every parameter before it is of a supported kind and has a
\* text its grammar accepts.
Reached(l, i) ==
    /\ i <= Len(ArgsOf(l))
    /\ \A j \in 1..(i - 1) :
           /\ IsSupportedType(TypesOf(l)[j])
           /\ GrammarAccepts(TypesOf(l)[j], ArgsOf(l)[j])

\* The bucket / bucket-ref parameters declared before parameter i.
ResourceTypedBefore(l, i) ==
    {j \in 1..(i - 1) : IsResourceType(TypesOf(l)[j])}

\* C27: when parameter i (from 0) is reached and its raw argument is there,
\* a supported kind whose grammar rejects the text makes the call record
\* FailedToBuildArgs(FailedToParse(i, type, raw)), and any other kind makes
\* it record FailedToBuildArgs(UnsupportedType(i, type)).  Either way one
\* error is recorded and nothing is emitted for parameter i, a bucket or
\* bucket reference included: the reservations, the counters and the body
\* hold what the resource parameters before i put there and no more.
C27_RejectedParameter ==
    (last.op \in CallOps /\ CalleeOf(last).ok) =>
        \A i \in 1..Len(TypesOf(last)) :
            (/\ Reached(last, i)
             /\ ~(/\ IsSupportedType(TypesOf(last)[i])
                  /\ GrammarAccepts(TypesOf(last)[i], ArgsOf(last)[i])))
            => /\ Len(builder.errors) = last.pre.errors + 1
               /\ IsSupportedType(TypesOf(last)[i]) =>
                      Last(builder.errors)
                          = FailedToBuildArgs(
                                FailedToParse(i - 1, TypesOf(last)[i],
                                              ArgsOf(last)[i]))
               /\ ~IsSupportedType(TypesOf(last)[i]) =>
                      Last(builder.errors)
                          = FailedToBuildArgs(
                                UnsupportedType(i - 1, TypesOf(last)[i]))
               /\ Len(ReservedSince(last.pre))
                      = Cardinality(ResourceTypedBefore(last, i))
               /\ builder.allocator.bucket_counter + builder.allocator.bucket_ref_counter
                      = last.pre.bid + last.pre.rid
                            + Cardinality(ResourceTypedBefore(last, i))
               /\ Len(AppendedSince(last.pre))
                      = Cardinality(ResourceTypedBefore(last, i))
                            * (IF AccountOf(last) # None THEN 2 ELSE 1)
               /\ \A p \in 1..Len(AppendedSince(last.pre)) :
                      IsBindingInstruction(AppendedSince(last.pre)[p],
                                           AccountOf(last))

\* A bucket and then a bucket reference given "#1,#x,30", with an account:
\* the bucket was withdrawn, declared and filled, and for the reference
\* nothing was.
C27_Witness ==
    /\ last.op = "call_method"
    /\ last.mcall.account = ACCOUNT
    /\ last.mcall.args = <<Text5Token, TextNftBadId>>
    /\ Len(builder.errors) = 1
    /\ Last(builder.errors)
           = FailedToBuildArgs(
                 FailedToParse(1, Custom(SCRYPTO_NAME_BUCKET_REF), TextNftBadId))
    /\ ReservedSince(last.pre) = <<DeclareTempBucket>>
    /\ Len(AppendedSince(last.pre)) = 2
    /\ builder.allocator.bucket_ref_counter = last.pre.rid
    /\ last.pre.rid = 1

(***************************************************************************)
(* C28: reservations and counters.                                         *)
(***************************************************************************)
\* How many instructions of a sequence are equal to inst.
CountOf(s, inst) == Cardinality({i \in 1..Len(s) : s[i] = inst})

\* C28: the reservations hold as many DeclareTempBucket as the bucket
\* counter says and as many DeclareTempBucketRef as the bucket-reference
\* counter says, so their length is the sum of the two counters; also after
\* calls that failed and left declarations behind.
C28_CountersMatchReservations ==
    /\ CountOf(builder.reservations, DeclareTempBucket)
           = builder.allocator.bucket_counter
    /\ CountOf(builder.reservations, DeclareTempBucketRef)
           = builder.allocator.bucket_ref_counter
    /\ Len(builder.reservations)
           = builder.allocator.bucket_counter
                 + builder.allocator.bucket_ref_counter

\* After a mint, a call that failed at its second parameter having declared
\* a bucket for its first, and a reservation by the caller.
C28_Witness ==
    /\ Len(builder.errors) = 1
    /\ builder.errors[1].e = "FailedToBuildArgs"
    /\ builder.errors[1].cause.i = 1
    /\ builder.reservations
           = <<DeclareTempBucketRef, DeclareTempBucket, DeclareTempBucket>>
    /\ builder.allocator.bucket_counter = 2
    /\ builder.allocator.bucket_ref_counter = 1
    /\ last.op = "declare_bucket"

(***************************************************************************)
(* C29, C30: errors and build.                                             *)
(***************************************************************************)
\* C29: once an error is recorded, no operation removes, replaces or
\* reorders a recorded error: the errors before a call are a prefix of those
\* after it, the first error stays the first, and every build fails with
\* that first error.
C29_ErrorsAreSticky ==
    [][ builder.errors # <<>> =>
            /\ Len(builder'.errors) >= Len(builder.errors)
            /\ \A i \in 1..Len(builder.errors) :
                   builder'.errors[i] = builder.errors[i]
            /\ last'.op = "build" =>
                   /\ ~result'.ok
                   /\ result'.err = builder.errors[1] ]_vars

\* A call that failed, a mint, another call that failed with another error,
\* and build: it returned the error of the first call.
C29_Witness ==
    /\ last.op = "build"
    /\ nops = 3
    /\ Len(builder.errors) = 2
    /\ builder.errors[1].e = "FailedToBuildArgs"
    /\ builder.errors[2].e = "MethodNotFound"
    /\ \E i \in 1..Len(builder.instructions) :
           /\ builder.instructions[i].op = "CallFunction"
           /\ builder.instructions[i].function = "mint"
    /\ result = Err(builder.errors[1])

\* The op of the fill instruction that goes with a declaration.
FillOpOf(declaration) ==
    IF declaration = DeclareTempBucket THEN "TakeFromContext"
    ELSE "BorrowFromContext"

\* Every declaration of program p has, later in p, a fill of its kind into
\* its id, the id of a declaration being the number of declarations of its
\* kind before it.
DeclarationsPaired(p) ==
    \A q \in 1..Len(p) :
        IsDeclaration(p[q]) =>
            \E j \in (q + 1)..Len(p) :
                /\ p[j].op = FillOpOf(p[q])
                /\ p[j].to = CountBefore(p, q, p[q].op)

\* C30 as stated: a program returned by build comes from a builder without
\* errors, and every declaration in it is paired with a fill into its id,
\* whatever public calls were made.
C30_Original ==
    Built => (builder.errors = <<>> /\ DeclarationsPaired(result.v))

\* C30 amended: a call that fails leaves an error recorded, a recorded error
\* is never removed, and build returns no program while one is recorded: so
\* after a call has failed no build returns a program, and a built program
\* comes from a builder without errors and holds nothing a failed call
\* emitted.  And when no declaration was handed to add_instruction
\* and every continuation given to declare_bucket / declare_bucket_ref
\* emitted its fill, every declaration in the program is paired with a fill
\* into its id: the instruction emitted right after the id was reserved.
C30_NoLeftovers ==
    /\ [][ /\ CallFails(last') => builder'.errors # <<>>
           /\ builder.errors # <<>> =>
                  /\ builder'.errors # <<>>
                  /\ last'.op = "build" => ~result'.ok ]_vars
    /\ [](Built =>
            /\ builder.errors = <<>>
            /\ raw \cap {"DeclareTempBucket", "DeclareTempBucketRef", "unfilled"}
                   = {} =>
                   /\ DeclarationsPaired(result.v)
                   /\ \A k \in 1..Len(builder.handed) :
                          /\ result.v[Len(builder.reservations)
                                          + builder.handed[k].body + 1].op
                                 = FillOpOf(result.v[builder.handed[k].at])
                          /\ result.v[Len(builder.reservations)
                                          + builder.handed[k].body + 1].to
                                 = builder.handed[k].id)

\* A program built after a call with an account that declared a bucket
\* reference and a bucket, and a bucket reference reserved by the caller
\* with a continuation that borrows into it.
C30_Witness ==
    /\ Built
    /\ raw = {}
    /\ builder.queried = 1
    /\ Len(result.v) = 10
    /\ result.v[1] = DeclareTempBucketRef
    /\ result.v[2] = DeclareTempBucket
    /\ result.v[3] = DeclareTempBucketRef
    /\ result.v[5] = BorrowFromContext(Decimal_from(1), BADGE, 0)
    /\ result.v[7] = TakeFromContext(Decimal_from(5), TOKEN, 0)
    /\ result.v[9].op = "BorrowFromContext" /\ result.v[9].to = 1

(***************************************************************************)
(* C31: raw arguments after those of the declared parameters.              *)
(***************************************************************************)
\* A recorded call_function / call_method whose callee was found and that
\* supplies more raw arguments than the callee declares.
HasSurplus(l) ==
    l.op \in CallOps /\ CalleeOf(l).ok /\ Len(ArgsOf(l)) > Len(TypesOf(l))

\* The raw arguments of a recorded call that stand for declared parameters.
DeclaredArgs(l) == SubSeq(ArgsOf(l), 1, Len(TypesOf(l)))

\* The builder a recorded call gives on builder `self` when it supplies the
\* raw arguments `args`.
CallWith(self, l, args) ==
    IF l.op = "call_function"
    THEN call_function(self, l.call.package_address, l.call.blueprint_name,
                       l.call.function, args, l.call.account)
    ELSE call_method(self, l.mcall.component_address, l.mcall.method, args,
                     l.mcall.account)

\* C31: raw arguments after those of the declared parameters are ignored.
\* A call that supplies more raw arguments than the n parameters its callee
\* declares leaves the builder as the same call with the first n arguments
\* alone does; when the first n coerce it records no error, reserves for the
\* declared bucket / bucket-ref parameters only, and ends with one call
\* instruction that carries exactly the n values of the declared parameters;
\* a callee that declares no parameter takes any raw argument list, and the
\* call appends its call instruction, without arguments, and nothing else.
C31_SurplusIgnored ==
    /\ [](HasSurplus(last) =>
            /\ (\A i \in 1..Len(TypesOf(last)) :
                    Coerces(TypesOf(last)[i], ArgsOf(last)[i])) =>
                   /\ Len(builder.errors) = last.pre.errors
                   /\ Len(builder.instructions) > last.pre.instructions
                   /\ Len(Last(builder.instructions).args) = Len(TypesOf(last))
                   /\ Last(builder.instructions)
                          = CallInstructionOf(last,
                                [i \in 1..Len(TypesOf(last)) |->
                                     ValueOfParam(last, i)])
                   /\ Len(ReservedSince(last.pre))
                          = Cardinality(DeclaredResourceParams(last))
                   /\ Len(AppendedSince(last.pre))
                          = 1 + Cardinality(DeclaredResourceParams(last))
                                    * (IF AccountOf(last) # None THEN 2 ELSE 1)
            /\ Len(TypesOf(last)) = 0 =>
                   /\ Len(builder.errors) = last.pre.errors
                   /\ ReservedSince(last.pre) = <<>>
                   /\ AppendedSince(last.pre) = <<CallInstructionOf(last, <<>>)>>
                   /\ builder.allocator.bucket_counter = last.pre.bid
                   /\ builder.allocator.bucket_ref_counter = last.pre.rid)
    /\ [][HasSurplus(last') =>
              builder' = CallWith(builder, last', DeclaredArgs(last'))]_vars

\* Method U8(Bucket, U8) of blueprint "Probe" called with ["5,30", "10",
\* "5,30"] and an account on a builder that holds a reservation: one more
\* bucket was reserved, withdrawn and filled, and the call carries two
\* values.
C31_Witness ==
    /\ last.op = "call_method"
    /\ last.mcall.method = "U8"
    /\ last.mcall.args = <<Text5Token, Text10, Text5Token>>
    /\ last.mcall.account = ACCOUNT
    /\ last.pre.reservations = 1
    /\ builder.errors = <<>>
    /\ Len(builder.reservations) = 2
    /\ Len(builder.instructions) = last.pre.instructions + 3
    /\ Last(builder.instructions)
           = CallMethod(PROBE, "U8",
                 << SmartValue_from("Bid", builder.allocator.bucket_counter - 1),
                    SmartValue_from("U8", 10) >>)

====
